---- MODULE Spec2Model ----
(***************************************************************************)
(* Command gateway of the Daily Shit List task tracker.                    *)
(*   src/convex/planner.ts  lines 1-564   store mutations and queries      *)
(*   src/convex/http.ts     lines 1-527   POST /api command dispatcher     *)
(* The store is the "tasks" table; a full-table collect() returns the      *)
(* documents in insertion order, modelled as a sequence.                   *)
(***************************************************************************)
EXTENDS Integers, Sequences, FiniteSets, TLC

VARIABLES tasks, nextId, clock, arrived, last, before, repeated, inflight,
          events, noteTable

vars == <<tasks, nextId, clock, arrived, last, before, repeated, inflight,
          events, noteTable>>

(***************************************************************************)
(* Bounds of the exploration.                                              *)
(***************************************************************************)
\* largest number of documents held by the table
MaxTasks == 2
\* number of requests received in one behaviour
MaxClock == 3
\* largest number of entries in an imported backup
MaxImport == 1
\* number of requests that overlap in the interleaved specification
MaxReqs == 2
\* largest number of sub-operations in a batch request
MaxBatch == 2
\* largest number of entries in a backup imported in merge mode
MaxMerge == 2
\* largest number of tasks of a table that the views are computed of
MaxView == 3
\* number of requests received in one behaviour of the view specification
MaxQueries == 1
\* largest number of commands in one envelope sent to /dsl/command
MaxCmds == 2
\* number of envelopes received in one behaviour of the command
\* specification
MaxEnvelopes == 2

(***************************************************************************)
(* JavaScript values.  A string is a sequence of characters; an optional   *)
(* value is the empty tuple (undefined) or a one-element tuple; the JSON   *)
(* null written by cleanTask is a value of its own.                        *)
(***************************************************************************)
None == <<>>
Some(x) == <<x>>
Null == <<None, None>>
IsSome(o) == Len(o) = 1

\* JavaScript truthiness of an optional string: undefined and "" are falsy
Truthy(o) == IsSome(o) /\ o[1] # <<>>

\* JavaScript truthiness of an optional status or mode name
TruthyName(o) == IsSome(o) /\ o[1] # ""

Chars == {"a", "A", "b", " "}

\* the upper-case letters that occur in the inputs, and their lower case
UpperCase == <<"A", "D", "E", "M", "N", "O">>
LowerCase == <<"a", "d", "e", "m", "n", "o">>

\* String.prototype.toLowerCase on one character
LowerChar(c) ==
    IF \E i \in 1..Len(UpperCase) : UpperCase[i] = c
    THEN LowerCase[CHOOSE i \in 1..Len(UpperCase) : UpperCase[i] = c]
    ELSE c

\* String.prototype.toLowerCase
toLowerCase(s) == [i \in 1..Len(s) |-> LowerChar(s[i])]

\* String.prototype.includes
includes(s, q) ==
    \E i \in 0..(Len(s) - Len(q)) : SubSeq(s, i + 1, i + Len(q)) = q

\* String.prototype.startsWith
startsWith(s, q) == Len(q) <= Len(s) /\ SubSeq(s, 1, Len(q)) = q

RECURSIVE splitWhitespace(_)
\* String.prototype.split(/\s+/): the pieces between the runs of blanks
splitWhitespace(s) ==
    LET blanks == {i \in 1..Len(s) : s[i] = " "}
    IN  IF blanks = {} THEN <<s>>
        ELSE LET i == CHOOSE k \in blanks : \A l \in blanks : k <= l
                 j == CHOOSE k \in i..Len(s) :
                         /\ \A l \in i..k : s[l] = " "
                         /\ (k = Len(s) \/ s[k + 1] # " ")
             IN  <<SubSeq(s, 1, i - 1)>>
                 \o splitWhitespace(SubSeq(s, j + 1, Len(s)))

(***************************************************************************)
(* Inputs.                                                                 *)
(***************************************************************************)
Statuses == {"planned", "in_flight", "blocked", "done"}

Titles == { <<"a">>, <<"A">>, <<"a", "b">> }
Projects == { <<"a">>, <<"A">> }
Reasons == { <<"a">>, <<"b">> }
Texts == { <<"a">> }

ReasonArgs == {None} \cup {Some(r) : r \in Reasons}

\* (status, reason) pairs of the generic status operation; "bogus" is a value
\* outside the validator's union (planner.ts lines 54-59)
StatusArgs ==
    { <<Some("done"), None>>, <<Some("blocked"), None>>,
      <<Some("blocked"), Some(<<"a">>)>>, <<Some("planned"), Some(<<"a">>)>>,
      <<Some("bogus"), None>> }

\* the fields a POST /api body may carry besides op (http.ts line 97)
NoArgs ==
    [id |-> None, title |-> None, exact |-> FALSE, status |-> None,
     reason |-> None, text |-> None, newTitle |-> None, project |-> None,
     note |-> None, mode |-> None, data |-> None, ops |-> None, q |-> None]

\* ids the store has issued so far (a well-formed id may name a deleted task)
IssuedIds == 1..(nextId - 1)

\* references to a task: by id, by title with or without exact:true, and
\* the request that carries neither
Refs ==
    {[NoArgs EXCEPT !.id = Some(i)] : i \in IssuedIds}
    \cup {[NoArgs EXCEPT !.title = Some(t), !.exact = e] :
              t \in Titles, e \in BOOLEAN}
    \cup {NoArgs}

\* the references used by the requests that lack a required field
FewRefs == {NoArgs, [NoArgs EXCEPT !.title = Some(<<"a">>)]}

\* the references used by the requests that carry further arguments: by id,
\* by one title, and the request that carries neither
ShortRefs ==
    {[NoArgs EXCEPT !.id = Some(i)] : i \in IssuedIds}
    \cup {[NoArgs EXCEPT !.title = Some(<<"a">>)], NoArgs}

(***************************************************************************)
(* The tasks table (src/unnamed/part_006 lines 46-71) and ctx.db.          *)
(***************************************************************************)
dbGet(db, id) ==
    LET S == {i \in 1..Len(db) : db[i].id = id}
    IN  IF S = {} THEN None ELSE Some(db[CHOOSE i \in S : TRUE])

dbDelete(db, id) == SelectSeq(db, LAMBDA t : t.id # id)

dbMap(db, F(_)) == [i \in 1..Len(db) |-> F(db[i])]

(***************************************************************************)
(* planner.ts: mutations.  Each yields the table after the mutation (db)   *)
(* and the value the mutation returns (ret).                               *)
(***************************************************************************)
\* (variant: a task whose title and project are already stored is not added
\* again)
addOnce(db, newId, title, project, noteText, timestamp) ==
    LET notes == IF Truthy(noteText)
                 THEN <<[t |-> timestamp, text |-> noteText[1]]>>
                 ELSE <<>>
        same == {i \in 1..Len(db) :
                    db[i].title = title /\ db[i].project = project}
    IN  IF same # {}
        THEN [db |-> db, ret |-> db[CHOOSE i \in same : TRUE].id]
        ELSE [db |-> Append(db, [id |-> newId, title |-> title,
                                 project |-> project, status |-> "planned",
                                 blockedReason |-> None, notes |-> notes,
                                 createdAt |-> timestamp,
                                 updatedAt |-> timestamp,
                                 completedAt |-> None]),
              ret |-> newId]

\* (variant: a task is created already in flight)
addInFlight(db, newId, title, project, noteText, timestamp) ==
    LET notes == IF Truthy(noteText)
                 THEN <<[t |-> timestamp, text |-> noteText[1]]>>
                 ELSE <<>>
    IN  [db |-> Append(db, [id |-> newId, title |-> title, project |-> project,
                            status |-> "in_flight", blockedReason |-> None,
                            notes |-> notes, createdAt |-> timestamp,
                            updatedAt |-> timestamp, completedAt |-> None]),
         ret |-> newId]

\* planner.ts add
add(db, newId, title, project, noteText, timestamp) ==
    LET notes == IF Truthy(noteText)
                 THEN <<[t |-> timestamp, text |-> noteText[1]]>>
                 ELSE <<>>
    IN  [db |-> Append(db, [id |-> newId, title |-> title, project |-> project,
                            status |-> "planned", blockedReason |-> None,
                            notes |-> notes, createdAt |-> timestamp,
                            updatedAt |-> timestamp, completedAt |-> None]),
         ret |-> newId]

\* planner.ts done
done(db, taskId, timestamp) ==
    IF dbGet(db, taskId) = None
    THEN [db |-> db, ret |-> [ok |-> FALSE]]
    ELSE [db |-> dbMap(db, LAMBDA t : IF t.id # taskId THEN t ELSE
                     [t EXCEPT !.status = "done",
                               !.completedAt = Some(timestamp),
                               !.updatedAt = timestamp,
                               !.blockedReason = None]),
          ret |-> [ok |-> TRUE]]

\* (variant: a reason once given stays)
statusBlockedReasonKept(old, newStatus, reason) ==
    IF newStatus = "blocked" /\ Truthy(reason) THEN reason ELSE old

\* planner.ts status, lines 72-76: which blockedReason the patch leaves
statusBlockedReason(old, newStatus, reason) ==
    IF newStatus = "blocked" /\ Truthy(reason) THEN reason
    ELSE IF newStatus # "blocked" THEN None
    ELSE old

\* planner.ts status, lines 78-82: which completedAt the patch leaves
statusCompletedAt(newStatus, timestamp) ==
    IF newStatus = "done" THEN Some(timestamp) ELSE None

\* planner.ts status
status(db, taskId, newStatus, reason, timestamp) ==
    IF dbGet(db, taskId) = None
    THEN [db |-> db, ret |-> [ok |-> FALSE]]
    ELSE [db |-> dbMap(db, LAMBDA t : IF t.id # taskId THEN t ELSE
                     [t EXCEPT !.status = newStatus,
                               !.updatedAt = timestamp,
                               !.blockedReason =
                                   statusBlockedReason(@, newStatus, reason),
                               !.completedAt =
                                   statusCompletedAt(newStatus, timestamp)]),
          ret |-> [ok |-> TRUE]]

\* (variant: the new note takes the place of the notes)
noteReplaces(db, taskId, text, timestamp) ==
    IF dbGet(db, taskId) = None
    THEN [db |-> db, ret |-> [ok |-> FALSE]]
    ELSE [db |-> dbMap(db, LAMBDA t : IF t.id # taskId THEN t ELSE
                     [t EXCEPT !.notes = <<[t |-> timestamp, text |-> text]>>,
                               !.updatedAt = timestamp]),
          ret |-> [ok |-> TRUE]]

\* planner.ts note
note(db, taskId, text, timestamp) ==
    IF dbGet(db, taskId) = None
    THEN [db |-> db, ret |-> [ok |-> FALSE]]
    ELSE [db |-> dbMap(db, LAMBDA t : IF t.id # taskId THEN t ELSE
                     [t EXCEPT !.notes = Append(@, [t |-> timestamp,
                                                    text |-> text]),
                               !.updatedAt = timestamp]),
          ret |-> [ok |-> TRUE]]

\* (variant: the rename stamps createdAt as well)
renameStampsCreatedAt(db, taskId, title, timestamp) ==
    IF dbGet(db, taskId) = None
    THEN [db |-> db, ret |-> [ok |-> FALSE]]
    ELSE [db |-> dbMap(db, LAMBDA t : IF t.id # taskId THEN t ELSE
                     [t EXCEPT !.title = title, !.updatedAt = timestamp,
                               !.createdAt = timestamp]),
          ret |-> [ok |-> TRUE]]

\* (variant: every rename also records a note)
renameLogsNote(db, taskId, title, timestamp) ==
    IF dbGet(db, taskId) = None
    THEN [db |-> db, ret |-> [ok |-> FALSE]]
    ELSE [db |-> dbMap(db, LAMBDA t : IF t.id # taskId THEN t ELSE
                     [t EXCEPT !.title = title, !.updatedAt = timestamp,
                               !.notes = Append(@, [t |-> timestamp,
                                                    text |-> title])]),
          ret |-> [ok |-> TRUE]]

\* planner.ts rename
rename(db, taskId, title, timestamp) ==
    IF dbGet(db, taskId) = None
    THEN [db |-> db, ret |-> [ok |-> FALSE]]
    ELSE [db |-> dbMap(db, LAMBDA t : IF t.id # taskId THEN t ELSE
                     [t EXCEPT !.title = title, !.updatedAt = timestamp]),
          ret |-> [ok |-> TRUE]]

\* planner.ts deleteTask
deleteTask(db, taskId) ==
    IF dbGet(db, taskId) = None
    THEN [db |-> db, ret |-> [ok |-> FALSE]]
    ELSE [db |-> dbDelete(db, taskId), ret |-> [ok |-> TRUE]]

\* (variant: what is removed is told by completedAt)
purgeByCompletedAt(db) ==
    LET doneTasks == SelectSeq(db, LAMBDA t : IsSome(t.completedAt))
    IN  [db |-> SelectSeq(db, LAMBDA t : ~IsSome(t.completedAt)),
         ret |-> [ok |-> TRUE, deleted |-> Len(doneTasks)]]

\* planner.ts purge
purge(db) ==
    LET doneTasks == SelectSeq(db, LAMBDA t : t.status = "done")
    IN  [db |-> SelectSeq(db, LAMBDA t : t.status # "done"),
         ret |-> [ok |-> TRUE, deleted |-> Len(doneTasks)]]

\* (variant: the reason of a blocked task is kept)
activateKeepsReason(db, taskId, timestamp) ==
    IF dbGet(db, taskId) = None
    THEN [db |-> db, ret |-> [ok |-> FALSE, previousStatus |-> None]]
    ELSE [db |-> dbMap(db, LAMBDA t : IF t.id # taskId THEN t ELSE
                     [t EXCEPT !.status = "in_flight",
                               !.updatedAt = timestamp,
                               !.completedAt = None]),
          ret |-> [ok |-> TRUE,
                   previousStatus |-> Some(dbGet(db, taskId)[1].status)]]

\* planner.ts activate
activate(db, taskId, timestamp) ==
    IF dbGet(db, taskId) = None
    THEN [db |-> db, ret |-> [ok |-> FALSE, previousStatus |-> None]]
    ELSE [db |-> dbMap(db, LAMBDA t : IF t.id # taskId THEN t ELSE
                     [t EXCEPT !.status = "in_flight",
                               !.updatedAt = timestamp,
                               !.blockedReason = None,
                               !.completedAt = None]),
          ret |-> [ok |-> TRUE,
                   previousStatus |-> Some(dbGet(db, taskId)[1].status)]]

(***************************************************************************)
(* planner.ts: queries.                                                    *)
(***************************************************************************)
\* planner.ts get
get(db, taskId) == dbGet(db, taskId)

\* planner.ts find, lines 298-300: a query is one string or an array of them
normalizeQuery(q) ==
    IF q.isArray THEN [i \in 1..Len(q.v) |-> toLowerCase(q.v[i])]
    ELSE <<toLowerCase(q.v)>>

QString(s) == [isArray |-> FALSE, v |-> s]
QArray(ss) == [isArray |-> TRUE, v |-> ss]

\* planner.ts find, lines 302-308
findMatches(t, queries, statusFilter) ==
    /\ \E k \in 1..Len(queries) : includes(toLowerCase(t.title), queries[k])
    /\ (~TruthyName(statusFilter) \/ t.status = statusFilter[1])

\* planner.ts find
find(db, q, statusFilter) ==
    SelectSeq(db, LAMBDA t : findMatches(t, normalizeQuery(q), statusFilter))

\* (variant: a task matches when its title contains every term)
deleteManyMatchesEveryTerm(t, queries, statusArg) ==
    /\ \A k \in 1..Len(queries) : includes(toLowerCase(t.title), queries[k])
    /\ (~TruthyName(statusArg) \/ t.status = statusArg[1])

\* planner.ts deleteMany, lines 170-176
deleteManyMatches(t, queries, statusArg) ==
    /\ \E k \in 1..Len(queries) : includes(toLowerCase(t.title), queries[k])
    /\ (~TruthyName(statusArg) \/ t.status = statusArg[1])

\* planner.ts deleteMany
deleteMany(db, q, statusArg) ==
    LET queries == normalizeQuery(q)
        matchingTasks ==
            SelectSeq(db, LAMBDA t : deleteManyMatches(t, queries, statusArg))
    IN  [db |-> SelectSeq(db, LAMBDA t :
                             ~deleteManyMatches(t, queries, statusArg)),
         ret |-> [ok |-> TRUE,
                  deleted |-> [i \in 1..Len(matchingTasks) |->
                                  [id |-> matchingTasks[i].id,
                                   title |-> matchingTasks[i].title]],
                  count |-> Len(matchingTasks)]]

\* (variant: the lookup compares names as they are written)
findProjectMatchCaseSensitive(db, name) ==
    LET hits == {i \in 1..Len(db) : db[i].project = name}
    IN  IF hits = {} THEN None
        ELSE Some(db[CHOOSE i \in hits : \A j \in hits : i <= j].project)

\* planner.ts findProjectByName, lines 366-373: the canonical name, if any
findProjectMatch(db, name) ==
    LET hits == {i \in 1..Len(db) :
                    toLowerCase(db[i].project) = toLowerCase(name)}
    IN  IF hits = {} THEN None
        ELSE Some(db[CHOOSE i \in hits : \A j \in hits : i <= j].project)

RECURSIVE unique(_)
\* [...new Set(xs)]: the first occurrence of every value, in order
unique(xs) ==
    IF xs = <<>> THEN <<>>
    ELSE LET front == unique(SubSeq(xs, 1, Len(xs) - 1))
             x == xs[Len(xs)]
         IN  IF \E k \in 1..Len(front) : front[k] = x THEN front
             ELSE Append(front, x)

\* planner.ts findProjectByName, line 364
projectNames(db) == unique([i \in 1..Len(db) |-> db[i].project])

\* planner.ts findProjectByName, lines 375-388: p is a close name of the input
isSuggestion(p, name) ==
    LET pLower == toLowerCase(p)
        inputLower == toLowerCase(name)
        inputWords == splitWhitespace(inputLower)
        pWords == splitWhitespace(pLower)
    IN  \/ startsWith(pLower, inputLower)
        \/ startsWith(inputLower, pLower)
        \/ includes(pLower, inputLower)
        \/ \E a \in 1..Len(inputWords), b \in 1..Len(pWords) :
              \/ includes(pWords[b], inputWords[a])
              \/ includes(inputWords[a], pWords[b])

\* planner.ts findProjectByName
findProjectByName(db, name) ==
    LET exactMatch_ == findProjectMatch(db, name)
        suggestions == SelectSeq(projectNames(db),
                                 LAMBDA p : isSuggestion(p, name))
    IN  IF Truthy(exactMatch_)
        THEN [match |-> exactMatch_, suggestions |-> <<>>]
        ELSE [match |-> None,
              suggestions |-> SubSeq(suggestions, 1,
                                     IF Len(suggestions) < 5
                                     THEN Len(suggestions) ELSE 5)]

\* planner.ts list, lines 247-256: the grouping keys of the listing
byProjectKeys(db) == {db[i].project : i \in 1..Len(db)}

\* (variant: planned tasks come before blocked ones)
statusOrderPlannedFirst ==
    [in_flight |-> 0, planned |-> 1, blocked |-> 2, done |-> 3]

\* planner.ts list, line 258
statusOrder == [in_flight |-> 0, blocked |-> 1, planned |-> 2, done |-> 3]

\* planner.ts active, line 320: done has no entry and gets 99
activeStatusOrder ==
    [in_flight |-> 0, blocked |-> 1, planned |-> 2, done |-> 99]

\* String.prototype.localeCompare on two timestamps
localeCompare(a, b) == IF a < b THEN 0 - 1 ELSE IF a > b THEN 1 ELSE 0

\* planner.ts list, lines 260-265, and active, lines 321-326: the comparator
compareTasks(a, b, order) ==
    IF order[a.status] # order[b.status]
    THEN order[a.status] - order[b.status]
    ELSE localeCompare(a.createdAt, b.createdAt)

RECURSIVE insertTask(_, _, _)
insertTask(sorted, x, order) ==
    IF sorted = <<>> THEN <<x>>
    ELSE IF compareTasks(x, Head(sorted), order) < 0 THEN <<x>> \o sorted
    ELSE <<Head(sorted)>> \o insertTask(Tail(sorted), x, order)

RECURSIVE sortTasks(_, _)
\* Array.prototype.sort with the comparator; the sort is stable
sortTasks(ts, order) ==
    IF ts = <<>> THEN <<>>
    ELSE insertTask(sortTasks(SubSeq(ts, 1, Len(ts) - 1), order),
                    ts[Len(ts)], order)

\* planner.ts list
list(db, projectArg, statusArg) ==
    LET selected ==
            SelectSeq(db, LAMBDA t :
                /\ (Truthy(projectArg) => t.project = projectArg[1])
                /\ (IsSome(statusArg) => t.status = statusArg[1]))
    IN  [tasks |-> [p \in byProjectKeys(selected) |->
                      sortTasks(SelectSeq(selected, LAMBDA t : t.project = p),
                                statusOrder)],
         stats |-> [total |-> Len(selected),
                    planned |-> Len(SelectSeq(selected,
                                   LAMBDA t : t.status = "planned")),
                    in_flight |-> Len(SelectSeq(selected,
                                   LAMBDA t : t.status = "in_flight")),
                    blocked |-> Len(SelectSeq(selected,
                                   LAMBDA t : t.status = "blocked")),
                    done |-> Len(SelectSeq(selected,
                                   LAMBDA t : t.status = "done"))]]

\* planner.ts active
active(db) ==
    sortTasks(SelectSeq(db, LAMBDA t : t.status # "done"), activeStatusOrder)

(***************************************************************************)
(* planner.ts: export and import.                                          *)
(***************************************************************************)
\* (variant: an imported task starts over as planned)
importInsertAsPlanned(db, newId, task, timestamp) ==
    Append(db, [id |-> newId, title |-> task.title, project |-> task.project,
                status |-> "planned", blockedReason |-> task.blockedReason,
                notes |-> task.notes, createdAt |-> task.createdAt,
                updatedAt |-> timestamp, completedAt |-> task.completedAt])

\* planner.ts importTasks, lines 476-485: insert one backup entry
importInsert(db, newId, task, timestamp) ==
    Append(db, [id |-> newId, title |-> task.title, project |-> task.project,
                status |-> task.status, blockedReason |-> task.blockedReason,
                notes |-> task.notes, createdAt |-> task.createdAt,
                updatedAt |-> timestamp, completedAt |-> task.completedAt])

RECURSIVE importInsertAll(_, _, _, _)
\* planner.ts importTasks, lines 475-487 and 539-551: insert every entry
importInsertAll(db, newId, entries, timestamp) ==
    IF entries = <<>> THEN db
    ELSE importInsertAll(importInsert(db, newId, Head(entries), timestamp),
                         newId + 1, Tail(entries), timestamp)

\* planner.ts importTasks, lines 493 and 498: the merge key
mergeKey(task) ==
    toLowerCase(task.project) \o <<":">> \o toLowerCase(task.title)

\* planner.ts importTasks, lines 491-495: Map.set keeps the last task of a key
existingByKey(existingTasks, key) ==
    LET hits == {i \in 1..Len(existingTasks) :
                    mergeKey(existingTasks[i]) = key}
    IN  IF hits = {} THEN None
        ELSE Some(existingTasks[CHOOSE i \in hits : \A j \in hits : j <= i])

\* (variant: every incoming note is added)
mergeNotesKeepsAll(mergedNotes, incoming) == mergedNotes \o incoming

RECURSIVE mergeNotes(_, _)
\* planner.ts importTasks, lines 503-510: add the notes not yet present
mergeNotes(mergedNotes, incoming) ==
    IF incoming = <<>> THEN mergedNotes
    ELSE LET n == Head(incoming)
             exists == \E k \in 1..Len(mergedNotes) :
                          mergedNotes[k].t = n.t /\ mergedNotes[k].text = n.text
         IN  mergeNotes(IF exists THEN mergedNotes ELSE Append(mergedNotes, n),
                        Tail(incoming))

RECURSIVE insertByT(_, _)
insertByT(sorted, n) ==
    IF sorted = <<>> THEN <<n>>
    ELSE IF n.t < Head(sorted).t THEN <<n>> \o sorted
    ELSE <<Head(sorted)>> \o insertByT(Tail(sorted), n)

RECURSIVE sortNotes(_)
\* planner.ts importTasks, line 512: Array.prototype.sort is stable
sortNotes(notes) ==
    IF notes = <<>> THEN <<>>
    ELSE insertByT(sortNotes(SubSeq(notes, 1, Len(notes) - 1)),
                   notes[Len(notes)])

RECURSIVE importMerge(_, _, _, _, _, _)
\* planner.ts importTasks, lines 497-536; acc counts created and updated
importMerge(db, newId, existingTasks, entries, timestamp, acc) ==
    IF entries = <<>> THEN [db |-> db, created |-> acc[1], updated |-> acc[2]]
    ELSE LET task == Head(entries)
             existing == existingByKey(existingTasks, mergeKey(task))
         IN  IF IsSome(existing)
             THEN importMerge(
                    dbMap(db, LAMBDA d : IF d.id # existing[1].id THEN d ELSE
                       [d EXCEPT !.status = task.status,
                                 !.blockedReason = task.blockedReason,
                                 !.notes = sortNotes(mergeNotes(existing[1].notes,
                                                                task.notes)),
                                 !.updatedAt = timestamp,
                                 !.completedAt = task.completedAt]),
                    newId, existingTasks, Tail(entries), timestamp,
                    <<acc[1], acc[2] + 1>>)
             ELSE importMerge(importInsert(db, newId, task, timestamp),
                    newId + 1, existingTasks, Tail(entries), timestamp,
                    <<acc[1] + 1, acc[2]>>)

\* planner.ts importTasks
importTasks(db, newId, data, mode, timestamp) ==
    IF mode = "replace"
    THEN [db |-> importInsertAll(<<>>, newId, data.tasks, timestamp),
          ret |-> [ok |-> TRUE, mode |-> mode, deleted |-> Len(db),
                   created |-> Len(data.tasks), updated |-> 0, skipped |-> 0]]
    ELSE IF mode = "merge"
    THEN LET m == importMerge(db, newId, db, data.tasks, timestamp, <<0, 0>>)
         IN  [db |-> m.db,
              ret |-> [ok |-> TRUE, mode |-> mode, deleted |-> 0,
                       created |-> m.created, updated |-> m.updated,
                       skipped |-> 0]]
    ELSE [db |-> importInsertAll(db, newId, data.tasks, timestamp),
          ret |-> [ok |-> TRUE, mode |-> mode, deleted |-> 0,
                   created |-> Len(data.tasks), updated |-> 0, skipped |-> 0]]

\* (variant: the notes are left out of the export)
exportTasksWithoutNotes(db) ==
    [tasks |-> [i \in 1..Len(db) |->
        [title |-> db[i].title, project |-> db[i].project,
         status |-> db[i].status, blockedReason |-> db[i].blockedReason,
         notes |-> <<>>, createdAt |-> db[i].createdAt,
         updatedAt |-> db[i].updatedAt, completedAt |-> db[i].completedAt]]]

\* planner.ts exportTasks, lines 405-414
exportTasks(db) ==
    [tasks |-> [i \in 1..Len(db) |->
        [title |-> db[i].title, project |-> db[i].project,
         status |-> db[i].status, blockedReason |-> db[i].blockedReason,
         notes |-> db[i].notes, createdAt |-> db[i].createdAt,
         updatedAt |-> db[i].updatedAt, completedAt |-> db[i].completedAt]]]

(***************************************************************************)
(* http.ts: POST /api.                                                     *)
(***************************************************************************)
\* http.ts cleanTask
cleanTask(task) ==
    IF ~IsSome(task) THEN Null
    ELSE IF task[1].status # "blocked" /\ task[1].blockedReason = None
         THEN Some([task[1] EXCEPT !.blockedReason = Null])
         ELSE task

\* an error string: a fixed text with the value interpolated into it
Error(msg, arg, n) == [msg |-> msg, arg |-> arg, n |-> n]

\* http.ts VALID_OPS
VALID_OPS ==
    <<<<"h", "e", "l", "p">>, <<"p", "r", "o", "j", "e", "c", "t", "s">>,
    <<"a", "c", "t", "i", "v", "e">>, <<"l", "i", "s", "t">>,
    <<"f", "i", "n", "d">>, <<"g", "e", "t">>,
    <<"e", "x", "p", "o", "r", "t">>, <<"a", "d", "d">>,
    <<"d", "o", "n", "e">>, <<"c", "o", "m", "p", "l", "e", "t", "e">>,
    <<"r", "e", "o", "p", "e", "n">>, <<"s", "t", "a", "r", "t">>,
    <<"b", "l", "o", "c", "k">>, <<"u", "n", "b", "l", "o", "c", "k">>,
    <<"s", "t", "a", "t", "u", "s">>, <<"n", "o", "t", "e">>,
    <<"r", "e", "n", "a", "m", "e">>, <<"d", "e", "l", "e", "t", "e">>,
    <<"d", "e", "l", "e", "t", "e", "M", "a", "n", "y">>,
    <<"p", "u", "r", "g", "e">>, <<"b", "a", "t", "c", "h">>,
    <<"a", "c", "t", "i", "v", "a", "t", "e">>,
    <<"i", "m", "p", "o", "r", "t">> >>

\* http.ts suggestOp, lines 51-65: common typos and aliases
Typos ==
    { <<<<"f", "i", "n", "i", "s", "h">>,
         <<"d", "o", "n", "e">>>>,
      <<<<"c", "o", "m", "p", "l", "e", "t", "e", "d">>,
         <<"c", "o", "m", "p", "l", "e", "t", "e">>>>,
      <<<<"r", "e", "m", "o", "v", "e">>,
         <<"d", "e", "l", "e", "t", "e">>>>,
      <<<<"s", "e", "a", "r", "c", "h">>,
         <<"f", "i", "n", "d">>>>,
      <<<<"c", "r", "e", "a", "t", "e">>,
         <<"a", "d", "d">>>>,
      <<<<"n", "e", "w">>,
         <<"a", "d", "d">>>>,
      <<<<"u", "p", "d", "a", "t", "e">>,
         <<"s", "t", "a", "t", "u", "s">>>>,
      <<<<"e", "d", "i", "t">>,
         <<"r", "e", "n", "a", "m", "e">>>>,
      <<<<"a", "l", "l">>,
         <<"l", "i", "s", "t">>>>,
      <<<<"t", "a", "s", "k", "s">>,
         <<"l", "i", "s", "t">>>>,
      <<<<"b", "e", "g", "i", "n">>,
         <<"s", "t", "a", "r", "t">>>>,
      <<<<"s", "t", "o", "p">>,
         <<"b", "l", "o", "c", "k">>>>,
      <<<<"c", "l", "e", "a", "r">>,
         <<"p", "u", "r", "g", "e">>>> }

\* the op field of a request body: a string, a number, or none
OpString(s) == [type |-> "string", v |-> s, n |-> 0]
OpNumber(n) == [type |-> "number", v |-> <<>>, n |-> n]
OpUndefined == [type |-> "undefined", v |-> <<>>, n |-> 0]

\* http.ts suggestOp, lines 40-66: op is pushed onto the suggestions
suggests(op, lower) ==
    \/ startsWith(op, lower) \/ startsWith(lower, op)
    \/ includes(op, lower) \/ includes(lower, op)
    \/ <<lower, op>> \in Typos

\* http.ts suggestOp; a number has no toLowerCase, so the call throws
suggestOp(invalidOp) ==
    IF \/ invalidOp.type = "undefined"
       \/ invalidOp.type = "string" /\ invalidOp.v = <<>>
       \/ invalidOp.type = "number" /\ invalidOp.n = 0
    THEN [threw |-> FALSE, value |-> None]
    ELSE IF invalidOp.type = "number"
    THEN [threw |-> TRUE, value |-> None]
    ELSE LET lower == toLowerCase(invalidOp.v)
             suggestions == SelectSeq(VALID_OPS, LAMBDA op : suggests(op, lower))
         IN  IF \E i \in 1..Len(VALID_OPS) : VALID_OPS[i] = lower
             THEN [threw |-> FALSE, value |-> None]
             ELSE [threw |-> FALSE,
                   value |-> IF Len(suggestions) > 0 THEN Some(suggestions[1])
                             ELSE None]

\* (variant: the comparison keeps the case)
exactMatchCaseSensitive(matches, title) ==
    LET hits == {i \in 1..Len(matches) : matches[i].title = title}
    IN  IF hits = {} THEN None
        ELSE Some(matches[CHOOSE i \in hits : \A j \in hits : i <= j])

\* (variant: the last case-insensitively equal title)
exactMatchLast(matches, title) ==
    LET hits == {i \in 1..Len(matches) :
                    toLowerCase(matches[i].title) = toLowerCase(title)}
    IN  IF hits = {} THEN None
        ELSE Some(matches[CHOOSE i \in hits : \A j \in hits : j <= i])

\* http.ts resolveTaskId, line 108: the first case-insensitively equal title
exactMatch(matches, title) ==
    LET hits == {i \in 1..Len(matches) :
                    toLowerCase(matches[i].title) = toLowerCase(title)}
    IN  IF hits = {} THEN None
        ELSE Some(matches[CHOOSE i \in hits : \A j \in hits : i <= j])

\* (variant: two candidates are not yet ambiguous)
isAmbiguousOverTwo(matches, exactFlag) == Len(matches) > 2 /\ ~exactFlag

\* http.ts resolveTaskId, line 112
isAmbiguous(matches, exactFlag) == Len(matches) > 1 /\ ~exactFlag

\* http.ts resolveTaskId, line 115
matchEntry(t) ==
    [id |-> t.id, title |-> t.title, project |-> t.project, status |-> t.status]

\* (variant: the last candidate)
lastMatch(matches) == matches[Len(matches)]

\* http.ts resolveTaskId, line 120
firstMatch(matches) == matches[1]

\* (variant: the message leaves the query out)
noTaskFoundBare(title) == Error("No task found matching: ", <<>>, 0)

\* http.ts resolveTaskId, line 105
noTaskFound(title) == Error("No task found matching: ", title, 0)

\* http.ts resolveTaskId
resolveTaskId(db, args) ==
    IF IsSome(args.id)
    THEN [id |-> args.id, matches |-> None, error |-> None]
    ELSE IF Truthy(args.title)
    THEN LET title == args.title[1]
             matches == find(db, QString(title), None)
             exact == exactMatch(matches, title)
         IN  IF Len(matches) = 0
             THEN [id |-> None, matches |-> None,
                   error |-> Some(noTaskFound(title))]
             ELSE IF IsSome(exact)
             THEN [id |-> Some(exact[1].id), matches |-> None, error |-> None]
             ELSE IF isAmbiguous(matches, args.exact)
             THEN [id |-> None,
                   matches |-> Some([i \in 1..Len(matches) |->
                                        matchEntry(matches[i])]),
                   error |-> Some(Error("Ambiguous", title, Len(matches)))]
             ELSE [id |-> Some(firstMatch(matches).id), matches |-> None,
                   error |-> None]
    ELSE [id |-> None, matches |-> None,
          error |-> Some(Error("Need id or title", <<>>, 0))]

\* a response: the HTTP status and the JSON body, with the request it answers
\* and what resolveTaskId returned for it (alone, prior and logged are
\* history fields, set when the response is sent)
Response(op, args, resolved, http, body) ==
    [op |-> op, req |-> args, resolved |-> resolved, http |-> http,
     body |-> body, alone |-> TRUE, prior |-> None, logged |-> 0]

NoBody == [ok |-> None, error |-> None, matches |-> None, task |-> None,
           extra |-> None]

NotResolved == [id |-> None, matches |-> None, error |-> None]

\* json({ error: resolved.error, matches: resolved.matches }, 400)
resolveFailure(op, args, resolved) ==
    Response(op, args, resolved, 400,
             [NoBody EXCEPT !.error = resolved.error,
                            !.matches = resolved.matches])

\* (variant: the complaint is sent as a success)
missingFieldAccepted(op, args, msg) ==
    Response(op, args, NotResolved, 200,
             [NoBody EXCEPT !.error = Some(Error(msg, <<>>, 0))])

\* json({ error: "Need ..." }, 400)
missingField(op, args, msg) ==
    Response(op, args, NotResolved, 400,
             [NoBody EXCEPT !.error = Some(Error(msg, <<>>, 0))])

\* json({ ok: true, task: cleanTask(task) })
taskSuccess(op, args, resolved, db) ==
    Response(op, args, resolved, 200,
             [NoBody EXCEPT !.ok = Some(TRUE),
                            !.task = cleanTask(get(db, resolved.id[1]))])

\* one entry of the results array of a batch response
BatchResult(op, ok) ==
    [op |-> op, ok |-> ok, id |-> None, title |-> None, projectUsed |-> None,
     projectCreated |-> None, error |-> None]

\* http.ts batch case "done", lines 327-337: the id given, else the first
\* task that find returns for the title (every task, for a missing title)
batchDoneTaskId(db, subArgs) ==
    LET matches == find(db, QString(IF Truthy(subArgs.title)
                                    THEN subArgs.title[1] ELSE <<>>), None)
    IN  IF IsSome(subArgs.id) THEN subArgs.id
        ELSE IF Len(matches) > 0 THEN Some(matches[1].id)
        ELSE None

\* (variant: the batch stops at the first sub-operation that fails)
batchStopsAtFailure(results) ==
    \A k \in 1..Len(results) : results[k].ok

\* http.ts batch, lines 321-365: the loop has no exit but its end
batchContinues(results) == TRUE

\* http.ts batch, lines 321-365: the sub-operation makes no call that reaches
\* the store: an operation the batch has no case for, or an add whose
\* project the argument validator of findProjectByName rejects
batchNoCall(subOp) ==
    \/ subOp.op \notin {"done", "add"}
    \/ subOp.op = "add" /\ ~IsSome(subOp.args.project)

\* the result pushed for a sub-operation that makes no call
batchNoCallResult(subOp) ==
    IF subOp.op = "add"
    THEN [BatchResult("add", FALSE) EXCEPT
             !.error = Some(Error("ArgumentValidationError", <<>>, 0))]
    ELSE [BatchResult(subOp.op, FALSE) EXCEPT
             !.error = Some(Error("Unsupported in batch", <<>>, 0))]

\* http.ts batch, line 321: the loop is over
batchFinished(r) == r.rest = <<>> \/ ~batchContinues(r.results)

RECURSIVE batchSkip(_)
\* http.ts batch, line 321: the loop runs on until a sub-operation makes a
\* call, or to its end
batchSkip(r) ==
    IF batchFinished(r) \/ r.pc = "found" \/ ~batchNoCall(Head(r.rest)) THEN r
    ELSE batchSkip([r EXCEPT
                      !.rest = Tail(@),
                      !.results = Append(@, batchNoCallResult(Head(r.rest)))])

(***************************************************************************)
(* State.  An httpAction is not a transaction: each ctx.runQuery and each   *)
(* ctx.runMutation of a handler is atomic on its own, and calls of other    *)
(* requests run between them.  A step of the model is one call of one       *)
(* request, with the code of the handler that runs before the next call.    *)
(*   tasks, nextId   the table and the next id the store issues             *)
(*   clock           the instant the wall clock was read at last: a         *)
(*                   mutation that stamps a task reads that instant again   *)
(*                   or a later one                                         *)
(*   arrived         the number of requests received                        *)
(*   inflight        the requests received and not yet answered, each with  *)
(*                   the values its handler holds and how far it has come   *)
(*   last            the response sent last                                 *)
(*   before          the table as found by the first call of the request    *)
(*                   that made a call last                                   *)
(*   repeated        last answers a request that repeats the request        *)
(*                   answered just before it, and no call has run since     *)
(* A response and a request in flight carry three history fields: alone (no *)
(* call of another request has run since the first call of this one), prior *)
(* (the response sent just before this request arrived and the table that   *)
(* its request found, when no call ran in between and the request repeats   *)
(* that one or reads what it added) and logged (the number of events when   *)
(* the request arrived).                                                    *)
(***************************************************************************)
NoResponse == Response("none", NoArgs, NotResolved, 0, NoBody)

Init ==
    /\ tasks = <<>>
    /\ nextId = 1
    /\ clock = 0
    /\ arrived = 0
    /\ last = NoResponse
    /\ before = <<>>
    /\ repeated = FALSE
    /\ inflight = <<>>
    /\ events = <<>>
    /\ noteTable = <<>>

\* Date.now(): the clock counts milliseconds, and a call reads the instant
\* that the call before it read, or a later one (clock = 0: no call has
\* read the clock yet)
now == IF clock = 0 THEN {1} ELSE {clock, clock + 1}

\* what findProjectByName returns when nothing is stored
NoLookup == [match |-> None, suggestions |-> <<>>]

\* a request in flight: its operation and arguments, how far its handler has
\* come, and the values the handler holds
Handler(op, args, pc) ==
    [op |-> op, args |-> args, pc |-> pc, resolved |-> NotResolved,
     fetched |-> None, previousStatus |-> None, projectLookup |-> NoLookup,
     rest |-> <<>>, results |-> <<>>, alone |-> TRUE, prior |-> None,
     logged |-> 0, called |-> 0]

\* the request (op, args) arrives right after the response sent last, and
\* repeats its request or is a get by the title it added
Follows(op, args) ==
    /\ last.alone
    /\ \/ last.op = op /\ last.req = args
       \/ /\ last.op = "add" /\ op = "get"
          /\ ~IsSome(args.id) /\ args.title = last.req.title

\* the response and the table that a request arriving right after them
\* refers to (a history value: the handler reads neither)
PriorOf(op, args) ==
    IF Follows(op, args)
    THEN Some([answer |-> [last EXCEPT !.prior = None], before |-> before])
    ELSE None

\* the response resp, sent to the request in flight r
Answer(r, resp) ==
    [resp EXCEPT !.alone = r.alone, !.prior = r.prior, !.logged = r.logged]

\* the response r answers the request answered just before it once more
RepeatsPrior(r) ==
    /\ r.alone /\ IsSome(r.prior)
    /\ r.prior[1].answer.op = r.op /\ r.prior[1].answer.req = r.req

\* a call has run since the response r was sent
Stale(r) == [r EXCEPT !.alone = FALSE]

\* the requests in flight after request k of them made a call
Overlap(fl, k) ==
    [i \in 1..Len(fl) |-> IF i = k THEN fl[i] ELSE Stale(fl[i])]

\* the requests in flight without request k, which was answered
Remove(fl, k) == SubSeq(fl, 1, k - 1) \o SubSeq(fl, k + 1, Len(fl))

\* tasks that the requests in flight are still to insert
RECURSIVE Pending(_)
Pending(fl) ==
    IF fl = <<>> THEN 0
    ELSE Pending(Tail(fl))
         + (IF Head(fl).op = "add" /\ Head(fl).pc = "looked" THEN 1
            ELSE Len(SelectSeq(Head(fl).rest, LAMBDA s : s.op = "add")))

\* a request may arrive: at most max requests arrive in one behaviour, and
\* at most MaxReqs are in flight at a time
Arrives(max) == arrived < max /\ Len(inflight) < MaxReqs

\* what one call of a handler leaves: the table, the next id, whether the
\* clock was read, the values the handler holds now, and the response if the
\* handler returned
Outcome(db, next, ticks, r, answer) ==
    [db |-> db, nextId |-> next, ticks |-> ticks, rec |-> r,
     answer |-> answer]

\* the state after request k of the requests fl made a call with outcome o,
\* at the instant t
Proceed(fl, k, o, t) ==
    /\ tasks' = o.db
    /\ nextId' = o.nextId
    /\ clock' = IF o.ticks THEN t ELSE clock
    /\ IF IsSome(o.answer)
       THEN /\ last' = Answer(fl[k], o.answer[1])
            /\ repeated' = RepeatsPrior(last')
            /\ inflight' = Remove(Overlap(fl, k), k)
       ELSE /\ last' = Stale(last)
            /\ repeated' = FALSE
            /\ inflight' = [Overlap(fl, k) EXCEPT
                               ![k] = [o.rec EXCEPT !.alone = fl[k].alone,
                                                    !.prior = fl[k].prior,
                                                    !.logged = fl[k].logged]]

\* the request (op, args) arrives and its handler makes its first call, at
\* the instant t and with outcome o
Arrive(max, op, args, o, t) ==
    /\ Arrives(max)
    /\ arrived' = arrived + 1
    /\ before' = tasks
    /\ Proceed(Append(inflight, [Handler(op, args, "arrived") EXCEPT
                                    !.prior = PriorOf(op, args),
                                    !.logged = Len(events)]),
               Len(inflight) + 1, o, t)

\* a request whose handler makes one call at most: it is answered in the step
\* in which it arrives, and at is the instant the clock was read at last
Served(max, resp, db, next, at) ==
    /\ Arrive(max, resp.op, resp.req,
              Outcome(db, next, TRUE, Handler(resp.op, resp.req, "arrived"),
                      Some(resp)),
              at)
    /\ UNCHANGED <<events, noteTable>>

\* request k in flight makes its next call, at the instant t and with
\* outcome o
Continue(k, o, t) ==
    /\ Proceed(inflight, k, o, t)
    /\ UNCHANGED <<arrived, before, events, noteTable>>

(***************************************************************************)
(* http.ts: the handlers that resolve one task (lines 161-249, 265-272,    *)
(* 307-313).                                                               *)
(***************************************************************************)
\* operations that resolve one task through resolveTaskId
TaskOpNames ==
    {"done", "reopen", "start", "block", "unblock", "status", "note",
     "rename", "delete", "activate", "get"}

\* (variant: block does not pass the reason on)
taskMutationDropsReason(op, args, db, id, timestamp) ==
    CASE op = "done" -> done(db, id, timestamp)
      [] op = "reopen" -> status(db, id, "planned", None, timestamp)
      [] op = "start" -> status(db, id, "in_flight", None, timestamp)
      [] op = "block" -> status(db, id, "blocked", None, timestamp)
      [] op = "unblock" -> status(db, id, "planned", None, timestamp)
      [] op = "status" ->
            status(db, id, args.status[1], args.reason, timestamp)
      [] op = "note" -> note(db, id, args.text[1], timestamp)
      [] op = "rename" -> rename(db, id, args.newTitle[1], timestamp)
      [] op = "activate" -> activate(db, id, timestamp)
      [] op = "delete" -> deleteTask(db, id)

\* the mutation each handler runs on the task it resolved: http.ts lines 166,
\* 175, 184, 193, 202, 212-216, 226, 236, 247, 269
taskMutation(op, args, db, id, timestamp) ==
    CASE op = "done" -> done(db, id, timestamp)
      [] op = "reopen" -> status(db, id, "planned", None, timestamp)
      [] op = "start" -> status(db, id, "in_flight", None, timestamp)
      [] op = "block" -> status(db, id, "blocked", args.reason, timestamp)
      [] op = "unblock" -> status(db, id, "planned", None, timestamp)
      [] op = "status" ->
            status(db, id, args.status[1], args.reason, timestamp)
      [] op = "note" -> note(db, id, args.text[1], timestamp)
      [] op = "rename" -> rename(db, id, args.newTitle[1], timestamp)
      [] op = "activate" -> activate(db, id, timestamp)
      [] op = "delete" -> deleteTask(db, id)

\* planner.ts status args, lines 54-59: the argument validator rejects the
\* call before the mutation runs
mutationThrows(op, args) == op = "status" /\ args.status[1] \notin Statuses

\* the mutation reads the clock: every one but deleteTask, once it has found
\* its task (planner.ts lines 37-40, 64-67, ...)
mutationStamps(op, db, id) == op # "delete" /\ dbGet(db, id) # None

\* the response of the handler of r once its last call has returned, read
\* from the table db: http.ts lines 168, 248, 271, 312
taskAnswer(r, db) ==
    LET id == r.resolved.id[1]
    IN  IF r.op = "delete"
        THEN Response("delete", r.args, r.resolved, 200,
                [NoBody EXCEPT !.ok = Some(TRUE),
                               !.extra = [deleted |-> cleanTask(r.fetched)]])
        ELSE IF r.op = "get"
        THEN LET task == cleanTask(get(db, id))
             IN  Response("get", r.args, r.resolved, 200,
                    IF task = Null
                    THEN [NoBody EXCEPT !.error =
                             Some(Error("Not found", <<>>, 0))]
                    ELSE [NoBody EXCEPT !.task = task])
        ELSE IF r.op = "activate"
        THEN Response("activate", r.args, r.resolved, 200,
                [NoBody EXCEPT !.ok = Some(TRUE),
                               !.task = cleanTask(get(db, id)),
                               !.extra = [previousStatus |->
                                             r.previousStatus]])
        ELSE taskSuccess(r.op, r.args, r.resolved, db)

\* the next call of the handler of r, which has resolved its task, on the
\* table db at the instant t
taskCall(r, db, next, t) ==
    LET id == r.resolved.id[1]
    IN  IF r.pc = "resolved" /\ r.op = "delete"
        THEN \* line 246: the task is read before it is deleted
             Outcome(db, next, FALSE,
                     [r EXCEPT !.fetched = get(db, id), !.pc = "fetched"],
                     None)
        ELSE IF r.pc = "fetched"
        THEN \* lines 247-248
             Outcome(taskMutation(r.op, r.args, db, id, t).db, next, FALSE, r,
                     Some(taskAnswer(r, db)))
        ELSE IF r.pc = "mutated" \/ r.op = "get"
        THEN \* runQuery(api.planner.get) and the response
             Outcome(db, next, FALSE, r, Some(taskAnswer(r, db)))
        ELSE IF mutationThrows(r.op, r.args)
        THEN \* the catch at line 490
             Outcome(db, next, FALSE, r,
                     Some(Response(r.op, r.args, r.resolved, 500,
                             [NoBody EXCEPT !.error =
                                 Some(Error("ArgumentValidationError",
                                            <<>>, 0))])))
        ELSE LET m == taskMutation(r.op, r.args, db, id, t)
             IN  Outcome(m.db, next, mutationStamps(r.op, db, id),
                         [r EXCEPT !.pc = "mutated",
                                   !.previousStatus =
                                       IF r.op = "activate"
                                       THEN m.ret.previousStatus ELSE None],
                         None)

\* the first call of the handler of (op, args): the query of resolveTaskId
\* for a task named by title; for a task named by id, which resolveTaskId
\* returns as it is, the call that follows
taskArrival(op, args, db, next, t) ==
    LET resolved == resolveTaskId(db, args)
        r == [Handler(op, args, "resolved") EXCEPT !.resolved = resolved]
    IN  IF ~IsSome(resolved.id)
        THEN Outcome(db, next, FALSE, r,
                     Some(resolveFailure(op, args, resolved)))
        ELSE IF IsSome(args.id)
        THEN taskCall(r, db, next, t)
        ELSE Outcome(db, next, FALSE, r, None)

\* a request for a handler that resolves one task arrives
TaskOp(op, args) ==
    /\ \E t \in now :
           Arrive(MaxClock, op, args,
                  taskArrival(op, args, tasks, nextId, t), t)
    /\ UNCHANGED <<events, noteTable>>

\* http.ts case "delete", line 246: the task is read before it is deleted
Fetch ==
    \E k \in 1..Len(inflight) :
        /\ inflight[k].op = "delete" /\ inflight[k].pc = "resolved"
        /\ Continue(k, taskCall(inflight[k], tasks, nextId, clock), clock)

\* the mutation runs on the id resolved earlier; delete answers right away
Mutate ==
    \E k \in 1..Len(inflight) :
        /\ inflight[k].op \in TaskOpNames
        /\ \/ /\ inflight[k].pc = "resolved"
              /\ inflight[k].op \notin {"delete", "get"}
           \/ inflight[k].pc = "fetched"
        /\ \E t \in now :
               Continue(k, taskCall(inflight[k], tasks, nextId, t), t)

\* the task is read by runQuery(api.planner.get) and the response sent
Reply ==
    \E k \in 1..Len(inflight) :
        /\ inflight[k].op \in TaskOpNames
        /\ \/ inflight[k].pc = "mutated"
           \/ inflight[k].pc = "resolved" /\ inflight[k].op = "get"
        /\ Continue(k, taskCall(inflight[k], tasks, nextId, clock), clock)

(***************************************************************************)
(* http.ts case "add" (lines 128-159).                                     *)
(***************************************************************************)
\* the response to an add: lines 150-158
addAnswer(r, db) ==
    Response("add", r.args, r.resolved, 200,
       [NoBody EXCEPT
          !.ok = Some(TRUE),
          !.task = cleanTask(get(db, r.resolved.id[1])),
          !.extra = [projectCreated |-> ~Truthy(r.projectLookup.match),
                     suggestions |-> r.projectLookup.suggestions]])

\* the next call of the handler of add
addCall(r, db, next, t) ==
    IF r.pc = "arrived"
    THEN \* lines 129-136
         IF ~Truthy(r.args.title) \/ ~Truthy(r.args.project)
         THEN Outcome(db, next, FALSE, r,
                      Some(missingField("add", r.args,
                                        "Need title and project")))
         ELSE Outcome(db, next, FALSE,
                      [r EXCEPT !.projectLookup =
                                    findProjectByName(db, r.args.project[1]),
                                !.pc = "looked"],
                      None)
    ELSE IF r.pc = "looked"
    THEN \* lines 139-146
         LET projectName == IF Truthy(r.projectLookup.match)
                            THEN r.projectLookup.match[1]
                            ELSE r.args.project[1]
             m == add(db, next, r.args.title[1], projectName, r.args.note, t)
         IN  Outcome(m.db, next + 1, TRUE,
                     [r EXCEPT !.resolved.id = Some(m.ret),
                               !.pc = "inserted"],
                     None)
    ELSE \* lines 147-158
         Outcome(db, next, FALSE, r, Some(addAnswer(r, db)))

\* http.ts case "add", for (title, project, note) arguments drawn from the
\* given set: the request arrives and the project is looked up
AddFrom(requests) ==
    \E rq \in requests :
        LET args == [NoArgs EXCEPT !.title = rq[1], !.project = rq[2],
                                   !.note = rq[3]]
        IN  /\ Len(tasks) + Pending(inflight) < MaxTasks
            /\ Arrive(MaxClock, "add", args,
                      addCall(Handler("add", args, "arrived"), tasks, nextId,
                              clock),
                      clock)
            /\ UNCHANGED <<events, noteTable>>

\* the add requests: every title, project and note, and requests without a
\* title, without a project and with an empty title
AddRequests ==
    {<<Some(t), Some(p), None>> : t \in Titles, p \in Projects}
    \cup {<<Some(<<"a">>), Some(<<"a">>), Some(x)>> : x \in Texts}
    \cup {<<None, Some(<<"a">>), None>>,
          <<Some(<<"a">>), None, None>>,
          <<Some(<<>>), Some(<<"a">>), None>>}

\* http.ts case "add"
Add == AddFrom(AddRequests)

\* http.ts lines 139-146: the mutation runs with the name settled on earlier
InsertTask ==
    \E k \in 1..Len(inflight) :
        /\ inflight[k].op = "add" /\ inflight[k].pc = "looked"
        /\ \E t \in now :
               Continue(k, addCall(inflight[k], tasks, nextId, t), t)

\* http.ts lines 147-158: the task is read back and the response sent
ReplyAdd ==
    \E k \in 1..Len(inflight) :
        /\ inflight[k].op = "add" /\ inflight[k].pc = "inserted"
        /\ Continue(k, addCall(inflight[k], tasks, nextId, clock), clock)

\* http.ts case "done" / "complete"
Done == \E args \in Refs : TaskOp("done", args)

\* http.ts case "reopen"
Reopen == \E args \in Refs : TaskOp("reopen", args)

\* http.ts case "start"
Start == \E args \in Refs : TaskOp("start", args)

\* http.ts case "block"
Block ==
    \E ref \in ShortRefs, reason \in ReasonArgs :
        TaskOp("block", [ref EXCEPT !.reason = reason])

\* http.ts case "unblock"
Unblock == \E args \in Refs : TaskOp("unblock", args)

\* the status requests, and those that carry no status or an empty one
StatusRequests ==
    {[ref EXCEPT !.status = sr[1], !.reason = sr[2]] :
        ref \in ShortRefs, sr \in StatusArgs}
    \cup {[ref EXCEPT !.status = st] : ref \in FewRefs, st \in {None, Some("")}}

\* http.ts case "status"
Status ==
    \E args \in StatusRequests :
        IF ~TruthyName(args.status)
        THEN Served(MaxClock, missingField("status", args, "Need status"),
                    tasks, nextId, clock)
        ELSE TaskOp("status", args)

\* the note requests, and those that carry no text or an empty one
NoteRequests ==
    {[ref EXCEPT !.text = Some(text)] : ref \in Refs, text \in Texts}
    \cup {[ref EXCEPT !.text = text] :
             ref \in FewRefs, text \in {None, Some(<<>>)}}

\* http.ts case "note"
Note ==
    \E args \in NoteRequests :
        IF ~Truthy(args.text)
        THEN Served(MaxClock, missingField("note", args, "Need text"),
                    tasks, nextId, clock)
        ELSE TaskOp("note", args)

\* the rename requests, by id and by a title that the new title contains or
\* not, and those that carry no new title
RenameRequests ==
    {[ref EXCEPT !.newTitle = Some(newTitle)] :
        ref \in ShortRefs \cup {[NoArgs EXCEPT !.title = Some(<<"a", "b">>)]},
        newTitle \in Titles}
    \cup {[ref EXCEPT !.newTitle = None] : ref \in FewRefs}

\* http.ts case "rename"
Rename ==
    \E args \in RenameRequests :
        IF ~Truthy(args.newTitle)
        THEN Served(MaxClock, missingField("rename", args, "Need newTitle"),
                    tasks, nextId, clock)
        ELSE TaskOp("rename", args)

\* http.ts case "delete"
Delete == \E args \in Refs : TaskOp("delete", args)

\* http.ts case "purge"
Purge ==
    LET m == purge(tasks)
    IN  Served(MaxClock,
               Response("purge", NoArgs, NotResolved, 200,
                  [NoBody EXCEPT !.ok = Some(m.ret.ok),
                                 !.extra = [deleted |-> m.ret.deleted]]),
               m.db, nextId, clock)

\* http.ts case "activate"
Activate == \E args \in Refs : TaskOp("activate", args)

\* http.ts case "get"
Get == \E args \in Refs : TaskOp("get", args)

RECURSIVE SeqsUpTo(_, _)
SeqsUpTo(S, n) ==
    IF n = 0 THEN {<<>>}
    ELSE LET shorter == SeqsUpTo(S, n - 1)
         IN  shorter \cup {Append(q, x) : q \in shorter, x \in S}

\* JavaScript truthiness of args.q: undefined and "" are falsy, an array is
\* truthy
TruthyQ(q) == IsSome(q) /\ (q[1].isArray \/ q[1].v # <<>>)

\* http.ts case "deleteMany", for arguments drawn from the given set
DeleteManyFrom(requests) ==
    \E args \in requests :
        IF ~TruthyQ(args.q)
        THEN Served(MaxClock,
                    missingField("deleteMany", args,
                       "Need q (search query - string or array of strings)"),
                    tasks, nextId, clock)
        ELSE LET m == deleteMany(tasks, args.q[1], args.status)
             IN  Served(MaxClock,
                        Response("deleteMany", args, NotResolved, 200,
                           [NoBody EXCEPT !.ok = Some(TRUE),
                                          !.extra = m.ret]),
                        m.db, nextId, clock)

\* the deleteMany requests: a term, a term with a status filter, two terms,
\* and requests without q and with an empty one
DeleteManyRequests ==
    {[NoArgs EXCEPT !.q = Some(QString(<<"b">>))],
     [NoArgs EXCEPT !.q = Some(QString(<<"A">>)), !.status = Some("done")],
     [NoArgs EXCEPT !.q = Some(QString(<<"A">>)), !.status = Some("")],
     [NoArgs EXCEPT !.q = Some(QArray(<<<<"b">>, <<"A">>>>))],
     NoArgs,
     [NoArgs EXCEPT !.q = Some(QString(<<>>))]}

\* http.ts case "deleteMany"
DeleteMany == DeleteManyFrom(DeleteManyRequests)

\* http.ts case "find", for arguments drawn from the given set
FindFrom(requests) ==
    \E args \in requests :
        IF ~TruthyQ(args.q)
        THEN Served(MaxClock,
                    missingField("find", args,
                       "Need q (search query - string or array of strings)"),
                    tasks, nextId, clock)
        ELSE LET found == find(tasks, args.q[1], args.status)
             IN  Served(MaxClock,
                        Response("find", args, NotResolved, 200,
                           [NoBody EXCEPT !.extra =
                              [tasks |-> [i \in 1..Len(found) |->
                                             cleanTask(Some(found[i]))[1]],
                               count |-> Len(found),
                               message |->
                                  IF Len(found) = 0
                                  THEN Some(Error("No tasks found matching",
                                                  args.q[1].v, 0))
                                  ELSE None]]),
                        tasks, nextId, clock)

FindRequests ==
    {NoArgs, [NoArgs EXCEPT !.q = Some(QString(<<"b">>))],
     [NoArgs EXCEPT !.q = Some(QString(<<"a">>)), !.status = Some("")]}

\* http.ts case "find"
Find == FindFrom(FindRequests)

\* a sub-operation of a batch: its op and the rest of its fields
SubOp(op, args) == [op |-> op, args |-> args]

\* the response to a batch: line 366
batchAnswer(r) ==
    Response("batch", r.args, NotResolved, 200,
             [NoBody EXCEPT !.ok = Some(TRUE),
                            !.extra = [results |-> r.results]])

\* what is left after a call of the loop: the loop runs on to its next call
\* or, at its end, to the response
batchOutcome(db, next, ticks, r) ==
    LET s == batchSkip(r)
    IN  Outcome(db, next, ticks, s,
                IF batchFinished(s) THEN Some(batchAnswer(s)) ELSE None)

\* the sub-operation at the head of the loop is done with
batchPush(r, result) ==
    [r EXCEPT !.rest = Tail(@), !.results = Append(@, result), !.pc = "sub",
              !.resolved = NotResolved, !.projectLookup = NoLookup]

\* http.ts case "batch", lines 327-358: the next call of the loop
batchCall(r, db, next, t) ==
    LET subOp == Head(r.rest)
        subArgs == subOp.args
    IN  IF r.pc = "sub" /\ subOp.op = "done"
        THEN \* lines 328-335
             LET taskId == batchDoneTaskId(db, subArgs)
             IN  IF IsSome(taskId)
                 THEN batchOutcome(db, next, FALSE,
                         [r EXCEPT !.resolved.id = taskId, !.pc = "found"])
                 ELSE batchOutcome(db, next, FALSE,
                         batchPush(r, [BatchResult("done", FALSE) EXCEPT
                            !.error = Some(Error("Not found", <<>>, 0))]))
        ELSE IF r.pc = "sub"
        THEN \* lines 340-343
             batchOutcome(db, next, FALSE,
                [r EXCEPT !.projectLookup =
                              findProjectByName(db, subArgs.project[1]),
                          !.pc = "found"])
        ELSE IF subOp.op = "done"
        THEN \* lines 331-332
             batchOutcome(done(db, r.resolved.id[1], t).db, next,
                mutationStamps("done", db, r.resolved.id[1]),
                batchPush(r, [BatchResult("done", TRUE) EXCEPT
                                 !.title = subArgs.title]))
        ELSE IF ~IsSome(subArgs.title)
        THEN \* line 345: the argument validator of add throws
             batchOutcome(db, next, FALSE,
                batchPush(r, [BatchResult("add", FALSE) EXCEPT
                   !.error = Some(Error("ArgumentValidationError",
                                        <<>>, 0))]))
        ELSE \* lines 345-356
             LET batchProjectName ==
                     IF Truthy(r.projectLookup.match)
                     THEN r.projectLookup.match[1]
                     ELSE subArgs.project[1]
                 m == add(db, next, subArgs.title[1], batchProjectName,
                          subArgs.note, t)
             IN  batchOutcome(m.db, next + 1, TRUE,
                    batchPush(r, [BatchResult("add", TRUE) EXCEPT
                       !.id = Some(m.ret),
                       !.projectUsed = Some(batchProjectName),
                       !.projectCreated =
                           Some(~Truthy(r.projectLookup.match))]))

\* the first call of the handler of batch, if it makes one
batchArrival(args, db, next, t) ==
    IF ~IsSome(args.ops)
    THEN Outcome(db, next, FALSE, Handler("batch", args, "sub"),
                 Some(missingField("batch", args, "Need ops array")))
    ELSE LET s == batchSkip([Handler("batch", args, "sub") EXCEPT
                                !.rest = args.ops[1]])
         IN  IF batchFinished(s)
             THEN Outcome(db, next, FALSE, s, Some(batchAnswer(s)))
             ELSE batchCall(s, db, next, t)

\* the tasks that a batch is to insert
Inserts(ops) ==
    IF IsSome(ops) THEN Len(SelectSeq(ops[1], LAMBDA s : s.op = "add")) ELSE 0

\* http.ts case "batch", for sub-operations drawn from the given set
BatchFrom(subOps) ==
    \E ops \in {None} \cup {Some(q) : q \in SeqsUpTo(subOps, MaxBatch)} :
        LET args == [NoArgs EXCEPT !.ops = ops]
        IN  /\ Len(tasks) + Pending(inflight) + Inserts(ops) <= MaxTasks
            /\ \E t \in now :
                   Arrive(MaxClock, "batch", args,
                          batchArrival(args, tasks, nextId, t), t)
            /\ UNCHANGED <<events, noteTable>>

\* http.ts case "batch", lines 321-365: the loop makes its next call
BatchStep ==
    \E k \in 1..Len(inflight) :
        /\ inflight[k].op = "batch"
        /\ \E t \in now :
               Continue(k, batchCall(inflight[k], tasks, nextId, t), t)

\* the sub-operations the batch requests draw from: done by id, by title and
\* with neither, add with and without a project, and two operations that
\* exist at the top level
BatchSubOps ==
    {SubOp("done", [NoArgs EXCEPT !.id = Some(i)]) : i \in IssuedIds}
    \cup {SubOp("done", [NoArgs EXCEPT !.title = t]) :
             t \in {None, Some(<<"a">>), Some(<<"b">>)}}
    \cup {SubOp("add", [NoArgs EXCEPT !.title = Some(<<"a">>),
                                      !.project = Some(<<"A">>)]),
           SubOp("add", [NoArgs EXCEPT !.title = Some(<<"a">>)]),
           SubOp("start", [NoArgs EXCEPT !.title = Some(<<"a">>)]),
           SubOp("delete", [NoArgs EXCEPT !.title = Some(<<"a">>)])}

\* http.ts case "batch"
Batch == BatchFrom(BatchSubOps)

\* backup entries the import requests draw from: each satisfies the argument
\* validator of importTasks (planner.ts lines 428-450)
BackupEntry(title, project, st, reason, notes, completedAt) ==
    [title |-> title, project |-> project, status |-> st,
     blockedReason |-> reason, notes |-> notes, createdAt |-> 0,
     updatedAt |-> 0, completedAt |-> completedAt]

BackupEntries ==
    { BackupEntry(<<"a">>, <<"A">>, "done", None, <<>>, Some(0)),
      BackupEntry(<<"a">>, <<"a">>, "blocked", Some(<<"a">>),
                  <<[t |-> 5, text |-> <<"a">>], [t |-> 0, text |-> <<"b">>]>>,
                  None),
      BackupEntry(<<"a">>, <<"a">>, "done", None, <<>>, None) }

Backups == {[tasks |-> q] : q \in SeqsUpTo(BackupEntries, MaxImport)}

\* (variant: the payload is not checked against the declared schema)
validImportDataUnchecked(data) == TRUE

\* planner.ts importTasks args, lines 428-450: the payload has the declared
\* shape (of the fields a payload carries here, status is the one that can
\* fall outside its declared type)
validImportData(data) ==
    \A k \in 1..Len(data.tasks) : data.tasks[k].status \in Statuses

\* http.ts case "import", line 387
validModes == {"replace", "merge", "append"}

\* the answer to an import that is turned away
importRejected(args, http, error) ==
    Response("import", args, NotResolved, http,
             [NoBody EXCEPT !.error = Some(error)])

\* http.ts case "import", for (data, mode) pairs drawn from the given set; a
\* payload the argument validator rejects makes runMutation throw before the
\* mutation runs, which the catch at line 490 answers with 500
ImportFrom(requests) ==
    \E rq \in requests :
        LET args == [NoArgs EXCEPT !.data = rq[1], !.mode = rq[2]]
        IN  IF ~IsSome(args.data)
            THEN Served(MaxClock,
                        missingField("import", args,
                                     "Need data (export format)"),
                        tasks, nextId, clock)
            ELSE IF ~TruthyName(args.mode)
            THEN Served(MaxClock,
                        missingField("import", args,
                                     "Need mode: replace|merge|append"),
                        tasks, nextId, clock)
            ELSE IF args.mode[1] \notin validModes
            THEN Served(MaxClock,
                        importRejected(args, 400,
                           Error("Invalid mode: ", args.mode[1], 0)),
                        tasks, nextId, clock)
            ELSE IF ~validImportData(args.data[1])
            THEN Served(MaxClock,
                        importRejected(args, 500,
                           Error("ArgumentValidationError", <<>>, 0)),
                        tasks, nextId, clock)
            ELSE \E t \in now :
                    LET m == importTasks(tasks, nextId, args.data[1],
                                         args.mode[1], t)
                    IN  /\ Len(m.db) + Pending(inflight) <= MaxTasks
                        /\ Served(MaxClock,
                                  Response("import", args, NotResolved, 200,
                                     [NoBody EXCEPT !.ok = Some(TRUE),
                                                    !.extra = m.ret]),
                                  m.db, nextId + m.ret.created, t)

\* a payload whose entry carries a status outside the declared union
BadBackup ==
    [tasks |-> <<BackupEntry(<<"a">>, <<"a">>, "bogus", None, <<>>, None)>>]

\* a payload of the declared shape
GoodBackup ==
    [tasks |-> <<BackupEntry(<<"a">>, <<"a">>, "planned", None, <<>>, None)>>]

\* the import requests: every backup in every mode, and one request for each
\* way of being rejected
ImportRequests ==
    {<<Some(data), Some(mode)>> : data \in Backups, mode \in validModes}
    \cup {<<None, Some("merge")>>,
          <<Some(GoodBackup), None>>,
          <<Some(GoodBackup), Some("bogus")>>,
          <<Some(BadBackup), Some("replace")>>}

\* http.ts case "import"
Import == ImportFrom(ImportRequests)

(***************************************************************************)
(* The requests to POST /api.  A request of any kind arrives while no other *)
(* is in flight; while one is in flight, the requests that arrive are a     *)
(* delete or a rename by id, a done by title and an add.  The calls of the  *)
(* requests in flight run in any order.                                     *)
(***************************************************************************)
\* no request is in flight
Quiet == inflight = <<>>

\* a request arrives while another is in flight
Overlapping ==
    /\ ~Quiet
    /\ \/ \E i \in IssuedIds :
             TaskOp("delete", [NoArgs EXCEPT !.id = Some(i)])
       \/ \E i \in IssuedIds :
             TaskOp("rename", [NoArgs EXCEPT !.id = Some(i),
                                             !.newTitle = Some(<<"a", "b">>)])
       \/ TaskOp("done", [NoArgs EXCEPT !.title = Some(<<"a">>)])
       \/ AddFrom({<<Some(<<"a">>), Some(<<"a">>), None>>})

\* http.ts case "batch", lines 317-320 and 366: a request without ops, and
\* one whose ops are the empty array
BatchNoOps == BatchFrom({})

Next ==
    \/ Quiet /\ Add
    \/ InsertTask
    \/ ReplyAdd
    \/ Quiet /\ Done
    \/ Quiet /\ Reopen
    \/ Quiet /\ Start
    \/ Quiet /\ Block
    \/ Quiet /\ Unblock
    \/ Quiet /\ Status
    \/ Quiet /\ Note
    \/ Quiet /\ Rename
    \/ Quiet /\ Delete
    \/ Quiet /\ Purge
    \/ Quiet /\ Activate
    \/ Quiet /\ Get
    \/ Fetch
    \/ Mutate
    \/ Reply
    \/ Quiet /\ Import
    \/ Quiet /\ BatchNoOps
    \/ Quiet /\ DeleteMany
    \/ Quiet /\ Find
    \/ Overlapping

Spec == Init /\ [][Next]_vars

(***************************************************************************)
(* Batches of up to MaxBatch sub-operations, on tasks that adds at the top  *)
(* level created; the requests that arrive while another is in flight are   *)
(* those of Overlapping.                                                    *)
(***************************************************************************)
\* http.ts case "add": a task is added while no request is in flight
AddTask == Quiet /\ AddFrom({<<Some(t), Some(<<"a">>), None>> : t \in Titles})

NextBatch ==
    \/ AddTask
    \/ InsertTask
    \/ ReplyAdd
    \/ Quiet /\ Batch
    \/ BatchStep
    \/ Mutate
    \/ Reply
    \/ Overlapping

SpecBatch == Init /\ [][NextBatch]_vars

(***************************************************************************)
(* Adds only, at the top level and inside batch, each received after the   *)
(* one before it was answered; the project names include close names of    *)
(* each other: a prefix, a substring, a shared word.                        *)
(***************************************************************************)
AddProjects == { <<"a">>, <<"A">>, <<"a", "b">>, <<"b", " ", "a">> }

AddProject ==
    /\ Quiet
    /\ AddFrom({<<Some(<<"a">>), Some(p), None>> : p \in AddProjects})

AddSubOps ==
    {SubOp("add", [NoArgs EXCEPT !.title = Some(<<"a">>),
                                 !.project = Some(p)]) : p \in AddProjects}

BatchAdd == Quiet /\ BatchFrom(AddSubOps)

NextAdd ==
    \/ AddProject
    \/ InsertTask
    \/ ReplyAdd
    \/ BatchAdd
    \/ BatchStep

SpecAdd == Init /\ [][NextAdd]_vars

(***************************************************************************)
(* Merge imports only.  The entries share the key a:a but for the last one; *)
(* their notes differ, and one entry carries its notes out of order.        *)
(***************************************************************************)
MergeEntries ==
    { BackupEntry(<<"a">>, <<"a">>, "planned", None,
                  <<[t |-> 0, text |-> <<"a">>]>>, None),
      BackupEntry(<<"A">>, <<"a">>, "done", None,
                  <<[t |-> 5, text |-> <<"b">>]>>, Some(0)),
      BackupEntry(<<"a">>, <<"A">>, "blocked", Some(<<"a">>),
                  <<[t |-> 5, text |-> <<"a">>], [t |-> 0, text |-> <<"b">>]>>,
                  None),
      BackupEntry(<<"a", "b">>, <<"a">>, "planned", None, <<>>, None) }

MergeBackups == {[tasks |-> q] : q \in SeqsUpTo(MergeEntries, MaxMerge)}

ImportMerge ==
    ImportFrom({<<Some(data), Some("merge")>> : data \in MergeBackups})

ImportReplace ==
    ImportFrom({<<Some(data), Some("replace")>> : data \in MergeBackups})

\* http.ts case "export"
Export ==
    Served(MaxClock,
           Response("export", NoArgs, NotResolved, 200,
                    [NoBody EXCEPT !.extra = exportTasks(tasks)]),
           tasks, nextId, clock)

\* http.ts case "import" with the body of the export answered just before as
\* data, in replace mode
ImportExported ==
    /\ last.op = "export" /\ last.alone
    /\ ImportFrom({<<Some(last.body.extra), Some("replace")>>})

NextImport ==
    \/ ImportMerge
    \/ ImportReplace
    \/ Export
    \/ ImportExported

SpecImport == Init /\ [][NextImport]_vars

(***************************************************************************)
(* The views and the answer to an unknown operation, each computed of every *)
(* table of up to MaxView tasks.  The tasks differ in status, creation time *)
(* and project.                                                             *)
(***************************************************************************)
ViewTask(id, st, createdAt, project) ==
    [id |-> id, title |-> <<"a">>, project |-> project, status |-> st,
     blockedReason |-> None, notes |-> <<>>, createdAt |-> createdAt,
     updatedAt |-> createdAt, completedAt |-> None]

ViewTriples == Statuses \X {0, 1} \X { <<"a">>, <<"b">> }

ViewTables ==
    {[i \in 1..Len(q) |-> ViewTask(i, q[i][1], q[i][2], q[i][3])] :
        q \in SeqsUpTo(ViewTriples, MaxView)}

InitView ==
    /\ tasks \in ViewTables
    /\ nextId = Len(tasks) + 1
    /\ clock = 0
    /\ arrived = 0
    /\ last = NoResponse
    /\ before = tasks
    /\ repeated = FALSE
    /\ inflight = <<>>
    /\ events = <<>>
    /\ noteTable = <<>>

\* http.ts case "list"
List ==
    \E projectArg \in {None, Some(<<"a">>)}, statusArg \in {None, Some("done")} :
        LET args == [NoArgs EXCEPT !.project = projectArg, !.status = statusArg]
            result == list(tasks, args.project, args.status)
        IN  Served(MaxQueries,
                   Response("list", args, NotResolved, 200,
                      [NoBody EXCEPT !.extra =
                         [tasks |-> [p \in DOMAIN result.tasks |->
                                       [i \in 1..Len(result.tasks[p]) |->
                                          cleanTask(
                                             Some(result.tasks[p][i]))[1]]],
                          stats |-> result.stats]]),
                   tasks, nextId, clock)

\* http.ts case "active"
Active ==
    LET result == active(tasks)
    IN  Served(MaxQueries,
               Response("active", NoArgs, NotResolved, 200,
                  [NoBody EXCEPT !.extra =
                     [tasks |-> [i \in 1..Len(result) |->
                                    cleanTask(Some(result[i]))[1]]]]),
               tasks, nextId, clock)

\* op values that no case of the switch takes
UnknownOps ==
    { OpString(<<"d", "o", "n">>), OpString(<<"i", "s", "t">>),
      OpString(<<"f", "i", "n", "i", "s", "h">>), OpString(<<"z", "z">>),
      OpString(<<"D", "O", "N", "E">>),
      OpString(<<"d", "e", "l", "e", "t", "e", "m", "a", "n", "y">>),
      OpString(<<>>), OpUndefined, OpNumber(5) }

\* http.ts default case; an exception in suggestOp reaches the catch at
\* line 490
UnknownOp ==
    \E op \in UnknownOps :
        LET suggestion == suggestOp(op)
        IN  Served(MaxQueries,
                   Response("unknown", NoArgs, NotResolved,
                      IF suggestion.threw THEN 500 ELSE 400,
                      [NoBody EXCEPT
                         !.error =
                            IF suggestion.threw
                            THEN Some(Error("TypeError", <<>>, 0))
                            ELSE IF IsSome(suggestion.value)
                            THEN Some(Error("Unknown op. Did you mean",
                                            suggestion.value[1], 0))
                            ELSE Some(Error("Unknown op. Valid:", <<>>, 0)),
                         !.extra = [op |-> op]]),
                   tasks, nextId, clock)

NextView ==
    \/ List
    \/ Active
    \/ UnknownOp

SpecView == InitView /\ [][NextView]_vars

(***************************************************************************)
(* POST /dsl/command of the protocol v1 backend.  Its tables are tasks,     *)
(* notes (noteTable) and events.  The handler is in http.ts; the mutations  *)
(* it calls (addTask, markDone, markBlocked, markParked, markActive,        *)
(* addNote, renameTask, sweep) and the query getState are described by      *)
(* Protocol v1, sections 3 and 4, and are modelled from that description.   *)
(* A mutation answers [db, notes, events, ok, id, error], or its call       *)
(* rejects and writes nothing.                                              *)
(***************************************************************************)
DslTask(id, userId, stream, title, priority, t) ==
    [id |-> id, userId |-> userId, stream |-> stream, title |-> title,
     status |-> "active", blockedReason |-> Null, priority |-> priority,
     createdAt |-> t, updatedAt |-> t, completedAt |-> Null]

\* Protocol v1 3.3: a row of the events table
Event(log, userId, type, taskId, payload, t, source) ==
    [id |-> Len(log) + 1, userId |-> userId, type |-> type, taskId |-> taskId,
     payload |-> payload, createdAt |-> t, source |-> source]

\* the position of the task of this user with this id, or 0
taskOfUser(db, userId, taskId) ==
    IF \E i \in 1..Len(db) : db[i].id = taskId /\ db[i].userId = userId
    THEN CHOOSE i \in 1..Len(db) : db[i].id = taskId /\ db[i].userId = userId
    ELSE 0

MutationResult(db, notes, log, ok, id, error) ==
    [db |-> db, notes |-> notes, events |-> log, ok |-> ok, id |-> id,
     error |-> error]

TaskNotFound(db, notes, log) ==
    MutationResult(db, notes, log, FALSE, None, Some("Task not found"))

\* Protocol v1 4.2.1
addTask(db, notes, log, id, userId, stream, title, priority, source, t) ==
    MutationResult(Append(db, DslTask(id, userId, stream, title, priority, t)),
                   notes,
                   Append(log, Event(log, userId, "task.add", Some(id),
                                     <<stream, title>>, t, source)),
                   TRUE, Some(id), None)

\* a status change of Protocol v1 4.2.2 to 4.2.4 and its event
statusChange(db, notes, log, taskId, userId, st, reason, source, t) ==
    LET i == taskOfUser(db, userId, taskId)
    IN  IF i = 0 THEN TaskNotFound(db, notes, log)
        ELSE MutationResult(
               [db EXCEPT ![i].status = st,
                          ![i].blockedReason = reason,
                          ![i].completedAt =
                              IF st = "done"
                              THEN IF db[i].completedAt # Null
                                   THEN db[i].completedAt ELSE Some(t)
                              ELSE Null,
                          ![i].updatedAt = t],
               notes,
               Append(log, Event(log, userId, "task.statusChange",
                                 Some(taskId), <<db[i].status, st>>, t, source)),
               TRUE, Some(taskId), None)

\* Protocol v1 4.2.2
markDone(db, notes, log, taskId, userId, source, t) ==
    statusChange(db, notes, log, taskId, userId, "done", Null, source, t)

\* Protocol v1 4.2.3
markBlocked(db, notes, log, taskId, userId, reason, source, t) ==
    statusChange(db, notes, log, taskId, userId, "blocked", Some(reason),
                 source, t)

\* Protocol v1 4.2.4
markParked(db, notes, log, taskId, userId, source, t) ==
    statusChange(db, notes, log, taskId, userId, "parked", Null, source, t)

\* Protocol v1 2.2: back in play
markActive(db, notes, log, taskId, userId, source, t) ==
    statusChange(db, notes, log, taskId, userId, "active", Null, source, t)

\* Protocol v1 4.2.5
addNote(db, notes, log, taskId, userId, text, author, source, t) ==
    LET i == taskOfUser(db, userId, taskId)
    IN  IF i = 0 THEN TaskNotFound(db, notes, log)
        ELSE MutationResult(
               [db EXCEPT ![i].updatedAt = t],
               Append(notes, [id |-> Len(notes) + 1, taskId |-> taskId,
                              userId |-> userId, author |-> author,
                              text |-> text, createdAt |-> t]),
               Append(log, Event(log, userId, "task.note", Some(taskId),
                                 <<text>>, t, source)),
               TRUE, Some(Len(notes) + 1), None)

\* Protocol v1 4.2.6
renameTask(db, notes, log, taskId, userId, title, source, t) ==
    LET i == taskOfUser(db, userId, taskId)
    IN  IF i = 0 THEN TaskNotFound(db, notes, log)
        ELSE MutationResult(
               [db EXCEPT ![i].title = title, ![i].updatedAt = t],
               notes,
               Append(log, Event(log, userId, "task.updateTitle", Some(taskId),
                                 <<db[i].title, title>>, t, source)),
               TRUE, Some(taskId), None)

\* a sweep that leaves every task as it is
NoSweep == [parked |-> {}, removed |-> {}]

\* Protocol v1 4.2.7: which housekeeping a sweep performs is left to the
\* backend (its examples: done tasks are archived or kept, active tasks not
\* touched for some days are parked, junk tasks are removed).  A sweep
\* leaves the tasks of the user as they are, parks one that is active, or
\* removes one that is done
Sweeps(db, userId) ==
    {NoSweep}
    \cup { [NoSweep EXCEPT !.parked = {db[i].id}] :
             i \in {j \in 1..Len(db) : /\ db[j].userId = userId
                                       /\ db[j].status = "active"} }
    \cup { [NoSweep EXCEPT !.removed = {db[i].id}] :
             i \in {j \in 1..Len(db) : /\ db[j].userId = userId
                                       /\ db[j].status = "done"} }

\* Protocol v1 4.2.7: the sweep does the housekeeping swept and is logged
\* without a task
sweep(db, notes, log, userId, source, t, swept) ==
    LET kept == SelectSeq(db, LAMBDA x : x.id \notin swept.removed)
    IN  MutationResult(
          [i \in 1..Len(kept) |->
              IF kept[i].id \in swept.parked
              THEN [kept[i] EXCEPT !.status = "parked", !.updatedAt = t]
              ELSE kept[i]],
          notes,
          Append(log, Event(log, userId, "planner.sweep", Null, <<>>, t,
                            source)),
          TRUE, None, None)

\* Protocol v1 5.2: the view of a user
getState(db, userId) ==
    LET mine == SelectSeq(db, LAMBDA t : t.userId = userId)
    IN  [streams |-> [st \in {mine[i].stream : i \in 1..Len(mine)} |->
                        SelectSeq(mine, LAMBDA t : t.stream = st)],
         stats |-> [totalActive |->
                        Len(SelectSeq(mine, LAMBDA t : t.status = "active")),
                    totalDoneToday |->
                        Len(SelectSeq(mine, LAMBDA t : t.status = "done")),
                    blockedCount |->
                        Len(SelectSeq(mine, LAMBDA t : t.status = "blocked"))]]

\* http.ts validateApiKey: the header is present and not empty
validateApiKey(apiKey) == IsSome(apiKey) /\ Len(apiKey[1]) > 0

\* http.ts line 932: request.headers.get("X-DSL-Source") || "api"
sourceTag(header) == IF Truthy(header) THEN header[1] ELSE <<"a", "p", "i">>

CommandResult(op, ok, task_id, note_id, error) ==
    [op |-> op, ok |-> ok, task_id |-> task_id, note_id |-> note_id,
     error |-> error]

\* a command with every field absent
NoCmd ==
    [op |-> None, stream |-> None, title |-> None, task_id |-> None,
     reason |-> None, text |-> None, author |-> None, priority |-> None]

\* the tables, the id counter and the results while an envelope is served
DslState(db, notes, log, next, results) ==
    [db |-> db, notes |-> notes, events |-> log, nextId |-> next,
     results |-> results]

\* the tables after a mutation, and one more result
afterMutation(st, m, next, result) ==
    DslState(m.db, m.notes, m.events, next, Append(st.results, result))

\* no mutation ran: one more result
rejected(st, result) ==
    [st EXCEPT !.results = Append(st.results, result)]

\* http.ts lines 964-973 and the like: the result of a mutation on a task
taskResult(op, cmd, m) ==
    IF m.ok THEN CommandResult(op, TRUE, cmd.task_id, None, None)
    ELSE CommandResult(op, FALSE, cmd.task_id, None, m.error)

\* http.ts lines 937-1093: the turn of the loop for cmd ends before a
\* mutation is called
dslNoCall(cmd) ==
    IF cmd.op = Some("add")
    THEN ~Truthy(cmd.stream) \/ ~Truthy(cmd.title)
    ELSE IF cmd.op \in {Some("done"), Some("blocked"), Some("parked"),
                        Some("active")}
    THEN ~IsSome(cmd.task_id)
    ELSE IF cmd.op = Some("note")
    THEN ~IsSome(cmd.task_id) \/ ~Truthy(cmd.text)
    ELSE IF cmd.op = Some("rename")
    THEN ~IsSome(cmd.task_id) \/ ~Truthy(cmd.title)
    ELSE cmd.op # Some("sweep")

\* what the call of a mutation rejects with, when it rejects (the mutations
\* are not part of this repository: each call of one returns or rejects)
Rejections == {None, Some("Server Error")}

\* http.ts line 1083: the error of a command whose op is no operation
unknownOperation(op) ==
    "Unknown operation: " \o (IF IsSome(op) THEN op[1] ELSE "undefined")

\* http.ts lines 936-1093: one turn of the loop over body.commands, in which
\* the call of the mutation, if there is one, rejects with rejects[1] or
\* returns; swept is the housekeeping that a sweep does
dslCommand(st, cmd, userId, source, t, rejects, swept) ==
    IF ~dslNoCall(cmd) /\ IsSome(rejects)
    THEN rejected(st, CommandResult(cmd.op[1], FALSE, None, None, rejects))
    ELSE IF cmd.op = Some("add")
    THEN IF ~Truthy(cmd.stream) \/ ~Truthy(cmd.title)
         THEN rejected(st, CommandResult("add", FALSE, None, None,
                                         Some("Missing stream or title")))
         ELSE LET m == addTask(st.db, st.notes, st.events, st.nextId, userId,
                               cmd.stream[1], cmd.title[1], cmd.priority,
                               source, t)
              IN  afterMutation(st, m, st.nextId + 1,
                                CommandResult("add", TRUE, m.id, None, None))
    ELSE IF cmd.op \in {Some("done"), Some("blocked"), Some("parked"),
                        Some("active")}
    THEN IF ~IsSome(cmd.task_id)
         THEN rejected(st, CommandResult(cmd.op[1], FALSE, None, None,
                                         Some("Missing task_id")))
         ELSE LET m == CASE cmd.op[1] = "done" ->
                              markDone(st.db, st.notes, st.events,
                                       cmd.task_id[1], userId, source, t)
                         [] cmd.op[1] = "blocked" ->
                              markBlocked(st.db, st.notes, st.events,
                                          cmd.task_id[1], userId,
                                          IF Truthy(cmd.reason)
                                          THEN cmd.reason[1] ELSE <<>>,
                                          source, t)
                         [] cmd.op[1] = "parked" ->
                              markParked(st.db, st.notes, st.events,
                                         cmd.task_id[1], userId, source, t)
                         [] cmd.op[1] = "active" ->
                              markActive(st.db, st.notes, st.events,
                                         cmd.task_id[1], userId, source, t)
              IN  afterMutation(st, m, st.nextId, taskResult(cmd.op[1], cmd, m))
    ELSE IF cmd.op = Some("note")
    THEN IF ~IsSome(cmd.task_id) \/ ~Truthy(cmd.text)
         THEN rejected(st, CommandResult("note", FALSE, None, None,
                                         Some("Missing task_id or text")))
         ELSE LET m == addNote(st.db, st.notes, st.events, cmd.task_id[1],
                               userId, cmd.text[1],
                               IF Truthy(cmd.author) THEN cmd.author[1]
                               ELSE source,
                               source, t)
              IN  afterMutation(st, m, st.nextId,
                    IF m.ok
                    THEN CommandResult("note", TRUE, cmd.task_id, m.id, None)
                    ELSE CommandResult("note", FALSE, cmd.task_id, None,
                                       m.error))
    ELSE IF cmd.op = Some("rename")
    THEN IF ~IsSome(cmd.task_id) \/ ~Truthy(cmd.title)
         THEN rejected(st, CommandResult("rename", FALSE, None, None,
                                         Some("Missing task_id or title")))
         ELSE LET m == renameTask(st.db, st.notes, st.events, cmd.task_id[1],
                                  userId, cmd.title[1], source, t)
              IN  afterMutation(st, m, st.nextId, taskResult("rename", cmd, m))
    ELSE IF cmd.op = Some("sweep")
    THEN LET m == sweep(st.db, st.notes, st.events, userId, source, t,
                        swept)
         IN  afterMutation(st, m, st.nextId,
                           CommandResult("sweep", TRUE, None, None, None))
    ELSE rejected(st, CommandResult(IF TruthyName(cmd.op) THEN cmd.op[1]
                                    ELSE "unknown",
                                    FALSE, None, None,
                                    Some(unknownOperation(cmd.op))))

\* (variant: the loop is left at the first command that fails)
dslStopsAtFailure(results) ==
    \A k \in 1..Len(results) : results[k].ok

\* http.ts lines 935-1093: the loop has no exit but its end
dslContinues(results) == TRUE

\* http.ts line 935: the loop is over
dslLoopOver(r) == r.rest = <<>> \/ ~dslContinues(r.results)

RECURSIVE dslSkip(_)
\* http.ts line 935: the loop runs on until a command calls a mutation, or
\* to its end; a turn that calls none reads no table
dslSkip(r) ==
    IF dslLoopOver(r) \/ ~dslNoCall(Head(r.rest)) THEN r
    ELSE dslSkip([r EXCEPT
                    !.rest = Tail(@),
                    !.results =
                        dslCommand(DslState(<<>>, <<>>, <<>>, 0, r.results),
                                   Head(r.rest), <<>>, <<>>, 0,
                                   None, NoSweep).results])

\* a body of a response of /dsl with every field absent
NoDslBody ==
    [ok |-> None, version |-> None, user_id |-> None, error |-> None,
     results |-> None, view |-> None]

\* http.ts lines 893-927: the body of a request that is turned away
DslError(error) ==
    [NoDslBody EXCEPT !.ok = Some(FALSE), !.error = Some(error)]

\* the answer to a request to /dsl/command or /dsl/state (alone, prior,
\* logged and called are history fields: called is the number of mutations
\* the handler called)
DslResponse(op, req, http, body, called) ==
    [op |-> op, req |-> req, http |-> http, body |-> body,
     alone |-> TRUE, prior |-> None, logged |-> 0, called |-> called]

\* http.ts lines 891-929: the status and error of a request that is turned
\* away, or status 0
envelopeRejection(req) ==
    IF ~validateApiKey(req.apiKey)
    THEN [http |-> 401, error |-> "Unauthorized: Missing or invalid X-DSL-API-Key"]
    ELSE IF ~req.json
    THEN [http |-> 400, error |-> "Invalid JSON body"]
    ELSE IF req.body.version # Some("v1")
    THEN [http |-> 400,
          error |-> "Unsupported version: "
                    \o (IF IsSome(req.body.version) THEN req.body.version[1]
                        ELSE "undefined")]
    ELSE IF \/ req.body.user_id.type # "string"
            \/ req.body.user_id.v = <<>>
    THEN [http |-> 400, error |-> "Missing or invalid user_id"]
    ELSE IF ~req.body.commands.isArray
    THEN [http |-> 400, error |-> "commands must be an array"]
    ELSE [http |-> 0, error |-> ""]

\* commands of an envelope: well-formed ones, ones lacking a field, one
\* naming a task that does not exist, one with an unknown op, one with an
\* empty op and one without op
DslCommands ==
    { [NoCmd EXCEPT !.op = Some("add"), !.stream = Some(<<"a">>),
                    !.title = Some(<<"a">>)],
      [NoCmd EXCEPT !.op = Some("add"), !.stream = Some(<<"a">>)],
      [NoCmd EXCEPT !.op = Some("done"), !.task_id = Some(1)],
      [NoCmd EXCEPT !.op = Some("done")],
      [NoCmd EXCEPT !.op = Some("done"), !.task_id = Some(9)],
      [NoCmd EXCEPT !.op = Some("blocked"), !.task_id = Some(1),
                    !.reason = Some(<<"b">>)],
      [NoCmd EXCEPT !.op = Some("parked"), !.task_id = Some(1)],
      [NoCmd EXCEPT !.op = Some("active"), !.task_id = Some(1)],
      [NoCmd EXCEPT !.op = Some("note"), !.task_id = Some(1),
                    !.text = Some(<<"a">>)],
      [NoCmd EXCEPT !.op = Some("note"), !.task_id = Some(1)],
      [NoCmd EXCEPT !.op = Some("rename"), !.task_id = Some(1),
                    !.title = Some(<<"b">>)],
      [NoCmd EXCEPT !.op = Some("sweep")],
      [NoCmd EXCEPT !.op = Some("zap")],
      [NoCmd EXCEPT !.op = Some("")],
      NoCmd }

Envelope(version, user_id, isArray, commands) ==
    [version |-> version, user_id |-> user_id,
     commands |-> [isArray |-> isArray, items |-> commands]]

DslRequest(apiKey, source, json, body) ==
    [apiKey |-> apiKey, source |-> source, json |-> json, body |-> body]

\* the key that the client of this repository sends
API_KEY == <<"k">>

\* the commands of the envelopes sent with X-DSL-Source
UiCommands ==
    { [NoCmd EXCEPT !.op = Some("add"), !.stream = Some(<<"a">>),
                    !.title = Some(<<"a">>)],
      [NoCmd EXCEPT !.op = Some("done"), !.task_id = Some(1)] }

\* envelopes that pass the checks, sent without and with X-DSL-Source
ValidEnvelopes ==
    { DslRequest(Some(API_KEY), None, TRUE,
                 Envelope(Some("v1"), OpString(<<"a">>), TRUE, cmds)) :
        cmds \in SeqsUpTo(DslCommands, MaxCmds) }
    \cup { DslRequest(Some(API_KEY), Some(<<"u", "i">>), TRUE,
                      Envelope(Some("v1"), OpString(<<"a">>), TRUE, cmds)) :
             cmds \in SeqsUpTo(UiCommands, MaxCmds) }

\* one add sent without key, with an empty key, as a body that is no JSON,
\* with another or no version, without user_id or with one that is empty or
\* a number, and with commands that are no array
AddEnvelope(version, user_id, isArray) ==
    Envelope(version, user_id, isArray,
             << [NoCmd EXCEPT !.op = Some("add"), !.stream = Some(<<"a">>),
                              !.title = Some(<<"a">>)] >>)

InvalidEnvelopes ==
    { DslRequest(k, None, TRUE, AddEnvelope(Some("v1"), OpString(<<"a">>), TRUE)) :
        k \in {None, Some(<<>>)} }
    \cup { DslRequest(Some(API_KEY), None, FALSE,
                      AddEnvelope(Some("v1"), OpString(<<"a">>), TRUE)) }
    \cup { DslRequest(Some(API_KEY), None, TRUE,
                      AddEnvelope(v, OpString(<<"a">>), TRUE)) :
             v \in {None, Some("v2")} }
    \cup { DslRequest(Some(API_KEY), None, TRUE,
                      AddEnvelope(Some("v1"), u, TRUE)) :
             u \in {OpUndefined, OpString(<<>>), OpNumber(5)} }
    \cup { DslRequest(Some(API_KEY), None, TRUE,
                      AddEnvelope(Some("v1"), OpString(<<"a">>), FALSE)) }

\* one add sent with a key that is not the client's
ForeignKeyEnvelopes ==
    { DslRequest(Some(<<"x">>), None, TRUE,
                 AddEnvelope(Some("v1"), OpString(<<"a">>), TRUE)) }

\* what one call of the handler of /dsl/command leaves: as Outcome, with the
\* tables of notes and events
DslOutcome(st, ticks, r, answer) ==
    [db |-> st.db, nextId |-> st.nextId, ticks |-> ticks, rec |-> r,
     answer |-> answer, notes |-> st.notes, events |-> st.events]

\* http.ts lines 1096-1108 and 1140-1148: the query getState is called for
\* the view.  When the call rejects, no handler catches it and the request
\* is answered 500 without a body of the handler; else the handler answers
\* 200 with body
dslView(op, req, db, userId, body, rejects, called) ==
    IF IsSome(rejects)
    THEN DslResponse(op, req, 500, NoDslBody, called)
    ELSE DslResponse(op, req, 200,
                     [body EXCEPT !.version = Some("v1"),
                                  !.user_id = Some(userId),
                                  !.view = Some(getState(db, userId))],
                     called)

\* http.ts lines 935-1108: the next call of the handler, a mutation of the
\* loop, which returns or rejects, or, after the loop, the query getState,
\* which returns or rejects; the clock is read by a mutation that writes
dslCall(r, st, t, rejects, swept) ==
    LET req == r.args
        userId == req.body.user_id.v
    IN  IF r.pc = "view"
        THEN DslOutcome(st, FALSE, r,
                Some(dslView("dsl/command", req, st.db, userId,
                             [NoDslBody EXCEPT !.ok = Some(TRUE),
                                               !.results = Some(r.results)],
                             rejects, r.called)))
        ELSE LET turn == dslCommand([st EXCEPT !.results = r.results],
                                    Head(r.rest), userId,
                                    sourceTag(req.source), t, rejects, swept)
                 s == dslSkip([r EXCEPT !.rest = Tail(@),
                                        !.results = turn.results,
                                        !.called = @ + 1])
             IN  DslOutcome(turn, turn.events # st.events,
                            [s EXCEPT !.pc = IF dslLoopOver(s) THEN "view"
                                             ELSE "loop"], None)

\* http.ts lines 930-935: the handler of an envelope that passed the checks,
\* at its first call
dslEntered(req) ==
    LET s == dslSkip([Handler("dsl/command", req, "loop") EXCEPT
                         !.rest = req.body.commands.items])
    IN  [s EXCEPT !.pc = IF dslLoopOver(s) THEN "view" ELSE "loop"]

\* the housekeeping that the next call of r may do: that of a sweep, when
\* the call is one
dslSweeps(r, db) ==
    IF r.pc = "loop" /\ Head(r.rest).op = Some("sweep")
    THEN Sweeps(db, r.args.body.user_id.v)
    ELSE {NoSweep}

\* http.ts lines 882-1108: the handler up to its first call
dslArrival(req, st, t, rejects, swept) ==
    LET rejection == envelopeRejection(req)
    IN  IF rejection.http # 0
        THEN DslOutcome(st, FALSE, Handler("dsl/command", req, "loop"),
                Some(DslResponse("dsl/command", req, rejection.http,
                                 DslError(rejection.error), 0)))
        ELSE dslCall(dslEntered(req), st, t, rejects, swept)

\* http.ts lines 882-1108: POST /dsl/command, for requests drawn from the
\* given set
PostDslCommandFrom(requests) ==
    /\ Arrives(MaxEnvelopes)
    /\ \E req \in requests, t \in now, rejects \in Rejections :
      \E swept \in IF envelopeRejection(req).http = 0
                   THEN dslSweeps(dslEntered(req), tasks) ELSE {NoSweep} :
        LET o == dslArrival(req,
                            DslState(tasks, noteTable, events, nextId, <<>>),
                            t, rejects, swept)
        IN  /\ Arrive(MaxEnvelopes, "dsl/command", req, o, t)
            /\ noteTable' = o.notes
            /\ events' = o.events

\* http.ts lines 882-1108: POST /dsl/command
PostDslCommand ==
    PostDslCommandFrom(ValidEnvelopes \cup InvalidEnvelopes
                       \cup ForeignKeyEnvelopes)

\* http.ts lines 935-1108: a request to /dsl/command makes its next call
DslStep ==
    \E k \in 1..Len(inflight), t \in now, rejects \in Rejections :
      /\ inflight[k].op = "dsl/command"
      /\ \E swept \in dslSweeps(inflight[k], tasks) :
        LET o == dslCall(inflight[k],
                         DslState(tasks, noteTable, events, nextId, <<>>),
                         t, rejects, swept)
        IN  /\ Proceed(inflight, k, o, t)
            /\ noteTable' = o.notes
            /\ events' = o.events
            /\ UNCHANGED <<arrived, before>>

\* http.ts lines 1120-1149: GET /dsl/state, for which the call of getState
\* returns or rejects
GetDslState ==
    \E user \in {None, Some(<<>>), Some(<<"a">>)}, rejects \in Rejections :
        Served(MaxEnvelopes,
               IF ~Truthy(user)
               THEN DslResponse("dsl/state", [user_id |-> user], 400,
                                DslError("Missing user_id query parameter"),
                                0)
               ELSE dslView("dsl/state", [user_id |-> user], tasks, user[1],
                            NoDslBody, rejects, 0),
               tasks, nextId, clock)

\* the envelopes that arrive while another request is in flight: one that
\* adds a task and marks task 1 done, and one that renames task 1 and then
\* carries a command without op
OverlappingEnvelopes ==
    { DslRequest(Some(API_KEY), None, TRUE,
                 Envelope(Some("v1"), OpString(<<"a">>), TRUE, cmds)) :
        cmds \in { << [NoCmd EXCEPT !.op = Some("add"),
                                    !.stream = Some(<<"a">>),
                                    !.title = Some(<<"a">>)],
                      [NoCmd EXCEPT !.op = Some("done"),
                                    !.task_id = Some(1)] >>,
                   << [NoCmd EXCEPT !.op = Some("rename"),
                                    !.task_id = Some(1),
                                    !.title = Some(<<"b">>)],
                      NoCmd >> } }

(***************************************************************************)
(* The requests to /dsl/command and /dsl/state.  A request of any kind      *)
(* arrives while no other is in flight; while one is in flight, the         *)
(* envelopes that arrive are those of OverlappingEnvelopes.                 *)
(***************************************************************************)
NextDsl ==
    \/ Quiet /\ PostDslCommand
    \/ DslStep
    \/ Quiet /\ GetDslState
    \/ ~Quiet /\ PostDslCommandFrom(OverlappingEnvelopes)

SpecDsl == Init /\ [][NextDsl]_vars

(***************************************************************************)
(* Interleaved requests to rename, delete and block, by id and by title, on *)
(* tasks whose titles contain one another.                                  *)
(***************************************************************************)
\* the titles of the interleaved requests
ConcTitles == { <<"a">>, <<"a", "b">> }

\* the references of the interleaved requests: by id and by title
ConcRefs ==
    {[NoArgs EXCEPT !.id = Some(i)] : i \in IssuedIds}
    \cup {[NoArgs EXCEPT !.title = Some(t)] : t \in ConcTitles}

\* the requests that run interleaved
ConcRequests ==
    {<<"rename", [ref EXCEPT !.newTitle = Some(t)]>> :
        ref \in ConcRefs, t \in ConcTitles}
    \cup {<<"delete", ref>> : ref \in ConcRefs}
    \cup {<<"block", [ref EXCEPT !.reason = Some(r)]>> :
        ref \in ConcRefs, r \in Reasons}

\* the tasks are created by requests that overlap no other request
ConcAdd ==
    /\ Quiet
    /\ AddFrom({<<Some(t), Some(<<"a">>), None>> : t \in ConcTitles})

\* a request arrives; its handler runs up to its first call
Begin ==
    \E rq \in ConcRequests :
        /\ Len(tasks) > 0
        /\ \A k \in 1..Len(inflight) : inflight[k].op # "add"
        /\ TaskOp(rq[1], rq[2])

NextConc ==
    \/ ConcAdd
    \/ InsertTask
    \/ ReplyAdd
    \/ Begin
    \/ Fetch
    \/ Mutate
    \/ Reply

SpecConc == Init /\ [][NextConc]_vars

(***************************************************************************)
(* Interleaved add requests, to projects whose names differ in case.       *)
(***************************************************************************)
ConcProjects == { <<"a">>, <<"A">> }

\* http.ts lines 129-136: the request arrives and the project is looked up
LookupProject ==
    AddFrom({<<Some(t), Some(p), None>> : t \in ConcTitles,
                                          p \in ConcProjects})

NextConcAdd ==
    \/ LookupProject
    \/ InsertTask
    \/ ReplyAdd

SpecConcAdd == Init /\ [][NextConcAdd]_vars

(***************************************************************************)
(* Vocabulary of the properties.  A property of what one request does is   *)
(* stated of the response sent last when no call of another request ran     *)
(* between the calls of its request and none has run since (last.alone):    *)
(* before is then the table as the request found it, tasks the table as it  *)
(* left it, and clock the instant of its last mutation that stamped a task. *)
(***************************************************************************)
\* r answers a status, note or rename request without the field that the
\* handler asks for before it resolves the task
LacksOwnField(r) ==
    \/ r.op = "status" /\ ~TruthyName(r.req.status)
    \/ r.op = "note" /\ ~Truthy(r.req.text)
    \/ r.op = "rename" /\ ~Truthy(r.req.newTitle)

\* r answers a task-targeting request that names its task by title and
\* reaches the resolution of the task, with no call of another request
\* between its calls
ByTitle(r) ==
    /\ r.alone
    /\ r.op \in TaskOpNames /\ ~IsSome(r.req.id) /\ Truthy(r.req.title)
    /\ ~LacksOwnField(r)

\* r answers a task-targeting request that names its task by id and reaches
\* the resolution of the task, with no call of another request between its
\* calls
ById(r) ==
    /\ r.alone
    /\ r.op \in TaskOpNames /\ IsSome(r.req.id) /\ ~LacksOwnField(r)

\* the response sent last answers a request of this operation, with no call
\* of another request between its calls
Answered(op) == last.op = op /\ last.alone

\* positions of the tasks whose title contains q, ignoring case
Candidates(db, q) ==
    {i \in 1..Len(db) : includes(toLowerCase(db[i].title), toLowerCase(q))}

\* positions of the tasks whose title equals q, ignoring case
ExactHits(db, q) ==
    {i \in 1..Len(db) : toLowerCase(db[i].title) = toLowerCase(q)}

Ids(db) == {db[i].id : i \in 1..Len(db)}

TaskOf(db, id) == db[CHOOSE i \in 1..Len(db) : db[i].id = id]

\* C1: every task is blocked exactly when it carries a blockedReason
C1_BlockedIffReason ==
    \A i \in 1..Len(tasks) :
        (tasks[i].status = "blocked") <=> IsSome(tasks[i].blockedReason)

\* C2: every task is done exactly when it carries a completedAt
C2_DoneIffCompletedAt ==
    \A i \in 1..Len(tasks) :
        (tasks[i].status = "done") <=> IsSome(tasks[i].completedAt)

\* C3: a title query with a case-insensitively equal title among the tasks
\* resolves to such a task and is never answered as ambiguous
C3_ExactMatchWins ==
    (ByTitle(last) /\ ExactHits(before, last.req.title[1]) # {})
    => /\ ~IsSome(last.resolved.error)
       /\ IsSome(last.resolved.id)
       /\ \E i \in ExactHits(before, last.req.title[1]) :
             before[i].id = last.resolved.id[1]

\* C3 witness: a done by title served while two tasks contained the query and
\* one of them carried it as its whole title in another letter case
C3_Witness ==
    /\ last.op = "done" /\ ByTitle(last) /\ last.http = 200
    /\ Cardinality(Candidates(before, last.req.title[1])) > 1
    /\ \E i \in ExactHits(before, last.req.title[1]) :
          /\ before[i].title # last.req.title[1]
          /\ before[i].status # "done"
          /\ tasks[i].id = last.resolved.id[1]
          /\ tasks[i].status = "done"
    /\ \E i \in Candidates(before, last.req.title[1]) :
          i \notin ExactHits(before, last.req.title[1])

\* C4: without an exact match and without exact:true, a title query with
\* several candidates is answered 400 Ambiguous with every candidate listed as
\* (id, title, project, status), and no task is modified
C4_AmbiguousFails ==
    (/\ ByTitle(last)
     /\ ExactHits(before, last.req.title[1]) = {}
     /\ Cardinality(Candidates(before, last.req.title[1])) > 1
     /\ ~last.req.exact)
    => /\ last.http = 400
       /\ IsSome(last.body.error)
       /\ last.body.error[1].msg = "Ambiguous"
       /\ IsSome(last.body.matches)
       /\ {last.body.matches[1][k] : k \in 1..Len(last.body.matches[1])}
          = {[id |-> before[i].id, title |-> before[i].title,
              project |-> before[i].project, status |-> before[i].status] :
                 i \in Candidates(before, last.req.title[1])}
       /\ tasks = before

\* C4 witness: a rename answered as ambiguous with two candidates listed
C4_Witness ==
    /\ last.op = "rename" /\ ByTitle(last) /\ last.http = 400
    /\ IsSome(last.body.matches) /\ Len(last.body.matches[1]) = 2
    /\ Cardinality(Candidates(before, last.req.title[1])) = 2
    /\ ExactHits(before, last.req.title[1]) = {}

\* C5: with exact:true, a title query without an exact match and with several
\* candidates resolves to the candidate that comes first in store order
C5_ExactFlagFirst ==
    (/\ ByTitle(last)
     /\ ExactHits(before, last.req.title[1]) = {}
     /\ Cardinality(Candidates(before, last.req.title[1])) > 1
     /\ last.req.exact)
    => /\ IsSome(last.resolved.id)
       /\ \E i \in Candidates(before, last.req.title[1]) :
             /\ \A j \in Candidates(before, last.req.title[1]) : i <= j
             /\ before[i].id = last.resolved.id[1]

\* C5 witness: a done with exact:true that marked the first of two candidates
C5_Witness ==
    /\ last.op = "done" /\ ByTitle(last) /\ last.req.exact
    /\ last.http = 200
    /\ Len(before) = 2
    /\ Candidates(before, last.req.title[1]) = {1, 2}
    /\ ExactHits(before, last.req.title[1]) = {}
    /\ before[1].status # "done"
    /\ tasks[1].status = "done" /\ tasks[2] = before[2]
    /\ last.resolved.id = Some(before[1].id)

\* C6: a task-targeting operation given an id no task carries is answered
\* with an error, not a success, and changes nothing
C6_UnknownIdFails ==
    (ById(last) /\ last.req.id[1] \notin Ids(before))
    => /\ last.body.ok # Some(TRUE)
       /\ IsSome(last.body.error)
       /\ tasks = before

\* C7: a title query no task matches is answered 400 with a not-found message
\* that includes the query, and the store is unchanged
C7_NoMatchFails ==
    (ByTitle(last) /\ Candidates(before, last.req.title[1]) = {})
    => /\ last.http = 400
       /\ IsSome(last.body.error)
       /\ last.body.error[1].msg = "No task found matching: "
       /\ last.body.error[1].arg = last.req.title[1]
       /\ ~IsSome(last.body.ok)
       /\ tasks = before

\* C7 witness: a delete by a title that none of the stored tasks contains
C7_Witness ==
    /\ last.op = "delete" /\ ByTitle(last) /\ last.http = 400
    /\ Len(before) > 0
    /\ Candidates(before, last.req.title[1]) = {}
    /\ last.body.error[1].arg = last.req.title[1]

\* the fields of a task that C9 speaks of
C9Fields(t) == <<t.status, t.blockedReason, t.completedAt, t.title, t.notes>>

\* the response that the request answered last repeats, and the table that
\* the request of that response found
First == last.prior[1].answer
FirstFound == last.prior[1].before

\* C9: a done, block or unblock that repeats the request served just before
\* it, against the task that request transitioned, succeeds and leaves
\* status, blockedReason, completedAt, title and notes as they were
C9_RepeatKeepsState ==
    (/\ repeated
     /\ last.op \in {"done", "block", "unblock"}
     /\ First.http = 200
     /\ IsSome(First.resolved.id)
     /\ First.resolved.id[1] \in Ids(before))
    => /\ last.http = 200
       /\ last.body.ok = Some(TRUE)
       /\ First.resolved.id[1] \in Ids(tasks)
       /\ C9Fields(TaskOf(tasks, First.resolved.id[1]))
          = C9Fields(TaskOf(before, First.resolved.id[1]))

\* the table with every updatedAt blanked
NoUpdatedAt(db) == [i \in 1..Len(db) |-> [db[i] EXCEPT !.updatedAt = 0]]

\* C10 as claimed: a rename that repeats the successful rename served just
\* before it (same id or title, same newTitle) succeeds and leaves the store
\* as the first one left it (updatedAt aside)
C10_RenameRepeat ==
    (repeated /\ last.op = "rename" /\ First.http = 200)
    => /\ last.http = 200
       /\ last.body.ok = Some(TRUE)
       /\ NoUpdatedAt(tasks) = NoUpdatedAt(before)

\* C10 as amended: the same, for a repeated rename that resolves to the task
\* the first one resolved to (always so when the task is named by id)
C10_RenameRepeatSameTask ==
    (/\ repeated /\ last.op = "rename" /\ First.http = 200
     /\ last.resolved.id = First.resolved.id)
    => /\ last.http = 200
       /\ last.body.ok = Some(TRUE)
       /\ NoUpdatedAt(tasks) = NoUpdatedAt(before)

\* C10 witness: a rename by id served twice in a row on a stored task, which
\* carries the new title and the time of the second request
C10_Witness ==
    /\ last.op = "rename" /\ repeated /\ ById(last) /\ last.http = 200
    /\ last.req.id[1] \in Ids(tasks)
    /\ TaskOf(tasks, last.req.id[1]).title = last.req.newTitle[1]
    /\ TaskOf(tasks, last.req.id[1]).updatedAt = clock
    /\ TaskOf(tasks, last.req.id[1]).createdAt < clock - 1

\* request k in flight, which names its task by title, runs its mutation in
\* this step
MutatesNow(k) ==
    /\ inflight[k].op \in TaskOpNames
    /\ Truthy(inflight[k].args.title) /\ ~IsSome(inflight[k].args.id)
    /\ \/ inflight[k].pc = "resolved" /\ inflight[k].op \notin {"delete", "get"}
       \/ inflight[k].pc = "fetched"
    /\ \E t \in now : Continue(k, taskCall(inflight[k], tasks, nextId, t), t)

\* C8: when a title-addressed operation runs its mutation, the task it
\* resolved still exists and its title still contains the query
C8_ResolveMutateAtomic ==
    [][ \A k \in 1..Len(inflight) :
          MutatesNow(k)
          => /\ inflight[k].resolved.id[1] \in Ids(tasks)
             /\ includes(
                   toLowerCase(TaskOf(tasks, inflight[k].resolved.id[1]).title),
                   toLowerCase(inflight[k].args.title[1])) ]_vars

\* the response sent last answers a get by the title of the task that the
\* add answered just before it, with success, created
GetAfterAdd ==
    /\ last.op = "get" /\ ByTitle(last)
    /\ IsSome(last.prior) /\ First.op = "add" /\ First.http = 200

\* C11 as claimed: whatever the store held, a successful add answers with a
\* new task in status planned, and a get by the same title served right after
\* it answers with that task
C11_AddThenGet ==
    GetAfterAdd
    => /\ First.body.task[1].status = "planned"
       /\ First.body.task[1].id \notin Ids(FirstFound)
       /\ last.http = 200
       /\ last.body.task = First.body.task

\* C11 as amended: the same, when no task stored before the add carried the
\* title in any letter case
C11_AddThenGetFreshTitle ==
    (GetAfterAdd /\ ExactHits(FirstFound, last.req.title[1]) = {})
    => /\ First.body.task[1].status = "planned"
       /\ First.body.task[1].id \notin Ids(FirstFound)
       /\ last.http = 200
       /\ last.body.task = First.body.task

\* C11 witness: a get by title answered with the planned task that the
\* request before it created next to an older task whose title contains the
\* query
C11_Witness ==
    /\ GetAfterAdd /\ last.http = 200
    /\ Len(FirstFound) = 1 /\ Len(tasks) = 2
    /\ Cardinality(Candidates(tasks, last.req.title[1])) = 2
    /\ IsSome(last.body.task) /\ last.body.task # Null
    /\ last.body.task[1].id = nextId - 1
    /\ last.body.task[1].title = last.req.title[1]
    /\ last.body.task[1].createdAt = clock
    /\ last.body.task[1].status = "planned"

\* number of done tasks of a table
DoneCount(db) == Cardinality({i \in 1..Len(db) : db[i].status = "done"})

\* C14: purge removes exactly the done tasks, reports their number, and
\* leaves every other task stored as it was, in the order it was
C14_PurgeRemovesDone ==
    Answered("purge")
    => /\ last.http = 200
       /\ last.body.extra.deleted = DoneCount(before)
       /\ tasks = SelectSeq(before, LAMBDA t : t.status # "done")
       /\ \A i \in 1..Len(tasks) : tasks[i].status # "done"

\* C14 witness: a purge served while the table held a done task and another
\* one, of which only the other one is left
C14_Witness ==
    /\ Answered("purge") /\ last.body.extra.deleted = 1
    /\ Len(before) = 2 /\ Len(tasks) = 1
    /\ \E i \in 1..2 : before[i].status = "done" /\ before[3 - i] = tasks[1]

\* C12: after adds served one after the other from an empty store, project
\* names that are equal ignoring case are equal, so the listing groups the
\* tasks of such a project under one key
C12_OneCasingPerProject ==
    /\ \A i, j \in 1..Len(tasks) :
          toLowerCase(tasks[i].project) = toLowerCase(tasks[j].project)
          => tasks[i].project = tasks[j].project
    /\ \A k1, k2 \in byProjectKeys(tasks) :
          toLowerCase(k1) = toLowerCase(k2) => k1 = k2

\* C12 witness: a batch add that named a stored project in another letter
\* case and whose task was stored under the name already there
C12_Witness ==
    /\ Answered("batch") /\ last.http = 200 /\ Len(before) = 1
    /\ Len(tasks) = 2 /\ tasks[2].project = tasks[1].project
    /\ \E k \in 1..Len(last.req.ops[1]) :
          /\ last.req.ops[1][k].op = "add"
          /\ last.req.ops[1][k].args.project # Some(tasks[1].project)
          /\ last.body.extra.results[k].projectUsed = Some(tasks[1].project)
          /\ last.body.extra.results[k].projectCreated = Some(FALSE)

\* C13: an add naming a project that equals no stored project ignoring case
\* but is a close name of one (prefix, substring, shared word) stores its task
\* under a project name that was already there
C13_CloseNameReused ==
    (/\ Answered("add") /\ last.http = 200
     /\ findProjectMatch(before, last.req.project[1]) = None
     /\ \E p \in byProjectKeys(before) : isSuggestion(p, last.req.project[1]))
    => last.body.task[1].project \in byProjectKeys(before)

\* the sub-operations and the results of the batch answered last
BatchOps == last.req.ops[1]
BatchResults == last.body.extra.results

\* C15: a batch answers with one result per sub-operation, in request order;
\* whatever failed before or after it, an add carrying title and project has
\* its task stored and a done naming a stored task by id has marked it done
C15_BatchIndependentSubOps ==
    (Answered("batch") /\ last.http = 200)
    => /\ Len(BatchResults) = Len(BatchOps)
       /\ \A k \in 1..Len(BatchOps) :
             /\ BatchResults[k].op = BatchOps[k].op
             /\ (/\ BatchOps[k].op = "add"
                 /\ IsSome(BatchOps[k].args.title)
                 /\ IsSome(BatchOps[k].args.project))
                => /\ BatchResults[k].ok
                   /\ BatchResults[k].id[1] \notin Ids(before)
                   /\ BatchResults[k].id[1] \in Ids(tasks)
                   /\ TaskOf(tasks, BatchResults[k].id[1]).title
                         = BatchOps[k].args.title[1]
             /\ (/\ BatchOps[k].op = "done"
                 /\ IsSome(BatchOps[k].args.id)
                 /\ BatchOps[k].args.id[1] \in Ids(before))
                => /\ BatchResults[k].ok
                   /\ TaskOf(tasks, BatchOps[k].args.id[1]).status = "done"

\* C15 witness: a batch whose first sub-operation failed and whose second one
\* added a task, and one whose first marked a task done before the second
\* failed
C15_Witness ==
    /\ Answered("batch") /\ last.http = 200 /\ Len(BatchOps) = 2
    /\ \/ /\ ~BatchResults[1].ok /\ BatchResults[2].ok
          /\ BatchOps[2].op = "add" /\ Len(tasks) = Len(before) + 1
       \/ /\ BatchResults[1].ok /\ ~BatchResults[2].ok
          /\ BatchOps[1].op = "done" /\ DoneCount(tasks) = DoneCount(before) + 1

\* the table after the operation is served alone, at the top level
TopLevelEffect(op, id, db, timestamp) ==
    IF op = "start" THEN status(db, id, "in_flight", None, timestamp).db
    ELSE IF op = "delete" THEN deleteTask(db, id).db
    ELSE db

\* C16: a batch of one sub-operation that exists at the top level (start,
\* delete) and names a stored task leaves the table as the same operation
\* served alone leaves it
C16_BatchSubOpAsTopLevel ==
    (/\ Answered("batch") /\ last.http = 200 /\ Len(BatchOps) = 1
     /\ BatchOps[1].op \in {"start", "delete"}
     /\ IsSome(resolveTaskId(before, BatchOps[1].args).id))
    => /\ BatchResults[1].ok
       /\ tasks = TopLevelEffect(BatchOps[1].op,
                      resolveTaskId(before, BatchOps[1].args).id[1],
                      before, clock)

\* C17: a batch of one done by title leaves the table as a top-level done by
\* that title leaves it: the task resolveTaskId names is marked done, and no
\* task is changed when the title is ambiguous or matches nothing
C17_BatchDoneResolves ==
    (/\ Answered("batch") /\ last.http = 200 /\ Len(BatchOps) = 1
     /\ BatchOps[1].op = "done"
     /\ ~IsSome(BatchOps[1].args.id) /\ Truthy(BatchOps[1].args.title))
    => LET resolved == resolveTaskId(before, BatchOps[1].args)
       IN  IF IsSome(resolved.id)
           THEN /\ BatchResults[1].ok
                /\ tasks = done(before, resolved.id[1], clock).db
           ELSE /\ ~BatchResults[1].ok
                /\ tasks = before

\* r answers a merge import that was carried out
MergeDone(r) ==
    r.op = "import" /\ r.alone /\ r.http = 200 /\ r.req.mode = Some("merge")

\* the notes of a task as a collection
NoteSet(notes) == {notes[k] : k \in 1..Len(notes)}

\* the notes are in timestamp order
NotesSorted(notes) ==
    \A k \in 1..(Len(notes) - 1) : notes[k].t <= notes[k + 1].t

\* no (timestamp, text) pair occurs twice among the notes
NotesDistinct(notes) == Cardinality(NoteSet(notes)) = Len(notes)

\* C18 as claimed: a merge import that repeats the merge import served just
\* before it creates no task and leaves every task's notes, status,
\* blockedReason and completedAt as the first import left them
C18_MergeTwice ==
    (MergeDone(last) /\ repeated)
    => /\ last.body.extra.created = 0
       /\ Len(tasks) = Len(before)
       /\ \A i \in 1..Len(tasks) :
             /\ tasks[i].notes = before[i].notes
             /\ tasks[i].status = before[i].status
             /\ tasks[i].blockedReason = before[i].blockedReason
             /\ tasks[i].completedAt = before[i].completedAt

\* C18 as amended: the same, with the notes of every task the same collection
\* after the second import as after the first, and in the same order as well
\* when every entry of the backup carries its notes in timestamp order
C18_MergeTwiceSameNotes ==
    (MergeDone(last) /\ repeated)
    => /\ last.body.extra.created = 0
       /\ Len(tasks) = Len(before)
       /\ \A i \in 1..Len(tasks) :
             /\ NoteSet(tasks[i].notes) = NoteSet(before[i].notes)
             /\ Len(tasks[i].notes) = Len(before[i].notes)
             /\ tasks[i].status = before[i].status
             /\ tasks[i].blockedReason = before[i].blockedReason
             /\ tasks[i].completedAt = before[i].completedAt
       /\ (\A k \in 1..Len(last.req.data[1].tasks) :
              NotesSorted(last.req.data[1].tasks[k].notes))
          => \A i \in 1..Len(tasks) : tasks[i].notes = before[i].notes

\* C18 witness: a backup of two entries with notes merged a second time, each
\* entry matching a task that the second import stamped again
C18_Witness ==
    /\ MergeDone(last) /\ repeated
    /\ Len(last.req.data[1].tasks) = 2
    /\ last.body.extra.updated = 2
    /\ Len(tasks) = 2
    /\ \E i \in 1..2 : tasks[i].notes # <<>> /\ tasks[i].updatedAt = clock

\* the entries of the backup imported last
Entries == last.req.data[1].tasks

\* C19: after a merge import, for every entry whose key names a task stored
\* before, that task carries the status, blockedReason and completedAt of the
\* last entry of its key, and its notes hold its prior notes and the entry's
\* notes and nothing else than prior and incoming notes, no pair twice, in
\* timestamp order; every entry without such a task was inserted
C19_MergePatchesAndUnions ==
    MergeDone(last)
    => /\ \A k \in 1..Len(Entries) :
             LET existing == existingByKey(before, mergeKey(Entries[k]))
                 sameKey == {l \in 1..Len(Entries) :
                                mergeKey(Entries[l]) = mergeKey(Entries[k])}
                 lastOfKey == CHOOSE l \in sameKey : \A j \in sameKey : j <= l
             IN  IsSome(existing)
                 => LET t == TaskOf(tasks, existing[1].id)
                    IN  /\ t.status = Entries[lastOfKey].status
                        /\ t.blockedReason = Entries[lastOfKey].blockedReason
                        /\ t.completedAt = Entries[lastOfKey].completedAt
                        /\ NoteSet(existing[1].notes) \subseteq NoteSet(t.notes)
                        /\ NoteSet(Entries[k].notes) \subseteq NoteSet(t.notes)
                        /\ NoteSet(t.notes) \subseteq
                              NoteSet(existing[1].notes)
                              \cup UNION {NoteSet(Entries[l].notes) :
                                             l \in sameKey}
                        /\ NotesDistinct(t.notes)
                        /\ NotesSorted(t.notes)
       /\ Len(tasks) - Len(before)
            = Cardinality({k \in 1..Len(Entries) :
                 ~IsSome(existingByKey(before, mergeKey(Entries[k])))})

\* r answers an import request that lacks data or mode, names a mode that
\* does not exist, or carries a payload outside the declared schema
ImportInvalid(r) ==
    /\ r.op = "import" /\ r.alone
    /\ \/ ~IsSome(r.req.data)
       \/ ~TruthyName(r.req.mode)
       \/ r.req.mode[1] \notin {"replace", "merge", "append"}
       \/ \E k \in 1..Len(r.req.data[1].tasks) :
             r.req.data[1].tasks[k].status \notin Statuses

\* C20: an invalid import request is answered with an error and the table is
\* left as it was
C20_InvalidImportNoEffect ==
    ImportInvalid(last)
    => /\ last.http \in {400, 500}
       /\ IsSome(last.body.error)
       /\ last.body.ok = None
       /\ tasks = before

\* C20 witness: a replace import with a payload outside the schema, rejected
\* while the table held a task
C20_Witness ==
    /\ Answered("import") /\ last.http = 500
    /\ last.req.mode = Some("replace")
    /\ Len(before) > 0 /\ tasks = before

\* the fields of a task that a backup entry carries, updatedAt aside
EntryFields(t) ==
    <<t.title, t.project, t.status, t.blockedReason, t.notes, t.createdAt,
      t.completedAt>>

\* C21: after a replace import the table holds one task per entry of the
\* backup, in backup order and with the entry's fields, under ids no earlier
\* task had; deleted is the earlier number of tasks and created the number of
\* entries
C21_ReplaceImport ==
    (Answered("import") /\ last.http = 200 /\ last.req.mode = Some("replace"))
    => /\ Len(tasks) = Len(Entries)
       /\ \A k \in 1..Len(Entries) :
             /\ EntryFields(tasks[k]) = EntryFields(Entries[k])
             /\ tasks[k].updatedAt = clock
       /\ Ids(tasks) \cap Ids(before) = {}
       /\ Cardinality(Ids(tasks)) = Len(tasks)
       /\ last.body.extra.deleted = Len(before)
       /\ last.body.extra.created = Len(Entries)

\* C21 witness: a backup of two different entries replaced a table of two
\* tasks
C21_Witness ==
    /\ Answered("import") /\ last.http = 200
    /\ last.req.mode = Some("replace")
    /\ Len(before) = 2 /\ Len(Entries) = 2 /\ Entries[1] # Entries[2]
    /\ last.body.extra.deleted = 2 /\ Len(tasks) = 2
    /\ tasks[1].status # "planned"

\* the title contains one of the terms, ignoring case
ContainsTerm(title, q) ==
    IF q.isArray
    THEN \E k \in 1..Len(q.v) :
            includes(toLowerCase(title), toLowerCase(q.v[k]))
    ELSE includes(toLowerCase(title), toLowerCase(q.v))

\* the task is one that the deleteMany answered last had to remove
ToDelete(t) ==
    /\ ContainsTerm(t.title, last.req.q[1])
    /\ (TruthyName(last.req.status) => t.status = last.req.status[1])

\* C22: deleteMany removes exactly the tasks whose title contains one of the
\* terms and whose status is the filter's when there is one, reports their
\* number (0 included, with success), and leaves the other tasks as they were
C22_DeleteManyExact ==
    (Answered("deleteMany") /\ TruthyQ(last.req.q))
    => /\ last.http = 200
       /\ last.body.ok = Some(TRUE)
       /\ tasks = SelectSeq(before, LAMBDA t : ~ToDelete(t))
       /\ last.body.extra.count
            = Cardinality({i \in 1..Len(before) : ToDelete(before[i])})
       /\ {last.body.extra.deleted[k].id :
              k \in 1..Len(last.body.extra.deleted)}
            = {before[i].id : i \in {j \in 1..Len(before) : ToDelete(before[j])}}

\* C22 witness: a deleteMany with two terms removed the two tasks, of which
\* one contained only one of the terms
C22_Witness ==
    /\ Answered("deleteMany") /\ last.http = 200
    /\ last.req.q[1].isArray /\ last.body.extra.count = 2
    /\ \E i \in 1..2 : ~includes(toLowerCase(before[i].title), <<"b">>)
    /\ tasks = <<>>

\* C24: an unblock of a task that was blocked with a reason leaves it
\* planned and without blockedReason, in the store and in the response
C24_UnblockClearsReason ==
    (/\ Answered("unblock") /\ last.http = 200
     /\ IsSome(last.resolved.id) /\ last.resolved.id[1] \in Ids(before)
     /\ TaskOf(before, last.resolved.id[1]).status = "blocked"
     /\ IsSome(TaskOf(before, last.resolved.id[1]).blockedReason))
    => /\ last.resolved.id[1] \in Ids(tasks)
       /\ TaskOf(tasks, last.resolved.id[1]).status = "planned"
       /\ TaskOf(tasks, last.resolved.id[1]).blockedReason = None
       /\ last.body.task[1].status = "planned"
       /\ last.body.task[1].blockedReason = Null

\* C24 witness: an unblock of a task that the request before it had blocked
\* with a reason, and that was not new then
C24_Witness ==
    /\ Answered("unblock") /\ last.http = 200 /\ IsSome(last.resolved.id)
    /\ last.resolved.id[1] \in Ids(before)
    /\ LET old == TaskOf(before, last.resolved.id[1])
       IN  /\ old.status = "blocked" /\ Truthy(old.blockedReason)
           /\ old.updatedAt = clock - 1 /\ old.createdAt < clock - 1
    /\ TaskOf(tasks, last.resolved.id[1]).status = "planned"

\* r answers a request that lacks a field its operation requires
MissingField(r) ==
    \/ r.op = "add" /\ (~Truthy(r.req.title) \/ ~Truthy(r.req.project))
    \/ r.op = "status" /\ ~TruthyName(r.req.status)
    \/ r.op = "note" /\ ~Truthy(r.req.text)
    \/ r.op = "rename" /\ ~Truthy(r.req.newTitle)
    \/ r.op \in {"find", "deleteMany"} /\ ~TruthyQ(r.req.q)
    \/ r.op = "batch" /\ ~IsSome(r.req.ops)
    \/ r.op = "import" /\ (~IsSome(r.req.data) \/ ~TruthyName(r.req.mode))
    \/ r.op \in TaskOpNames /\ ~IsSome(r.req.id) /\ ~Truthy(r.req.title)

\* C26: a request that lacks a required field is answered 400 with an error
\* and the table is left as it was
C26_MissingFieldRejected ==
    (MissingField(last) /\ last.alone)
    => /\ last.http = 400
       /\ IsSome(last.body.error)
       /\ last.body.ok = None
       /\ tasks = before

\* C26 witness: a rename without newTitle that names a stored task by title,
\* rejected
C26_Witness ==
    /\ Answered("rename") /\ ~IsSome(last.req.newTitle)
    /\ Truthy(last.req.title)
    /\ Candidates(before, last.req.title[1]) # {}
    /\ last.http = 400 /\ tasks = before

\* C27: a status request whose status is none of planned, in_flight, blocked,
\* done and whose task is found is answered 400 with an error, the table
\* left as it was
C27_InvalidStatusIs400 ==
    (/\ Answered("status") /\ TruthyName(last.req.status)
     /\ last.req.status[1] \notin Statuses
     /\ IsSome(last.resolved.id))
    => /\ last.http = 400
       /\ IsSome(last.body.error)
       /\ tasks = before

\* C30: an add with a non-empty title and project is answered with success
\* and appends one task, planned, under an id no stored task has, whatever
\* the table holds
C30_AddAlwaysCreates ==
    (Answered("add") /\ Truthy(last.req.title) /\ Truthy(last.req.project))
    => /\ last.http = 200
       /\ last.body.ok = Some(TRUE)
       /\ Len(tasks) = Len(before) + 1
       /\ SubSeq(tasks, 1, Len(before)) = before
       /\ tasks[Len(tasks)].id \notin Ids(before)
       /\ tasks[Len(tasks)].status = "planned"
       /\ tasks[Len(tasks)].title = last.req.title[1]
       /\ last.body.task[1].id = tasks[Len(tasks)].id

\* C30 witness: an add of a title and project that a stored task already
\* carried
C30_Witness ==
    /\ Answered("add") /\ last.http = 200 /\ Len(tasks) = 2
    /\ tasks[1].title = tasks[2].title /\ tasks[1].project = tasks[2].project
    /\ tasks[1].id # tasks[2].id
    /\ tasks[2].createdAt = clock /\ tasks[1].createdAt < clock
    /\ last.req.project = Some(tasks[1].project)

RECURSIVE IsSubsequence(_, _)
\* every element of xs occurs in ys, in the order of xs
IsSubsequence(xs, ys) ==
    IF xs = <<>> THEN TRUE
    ELSE IF ys = <<>> THEN FALSE
    ELSE IF Head(xs) = Head(ys) THEN IsSubsequence(Tail(xs), Tail(ys))
    ELSE IsSubsequence(xs, Tail(ys))

\* xs is the front of ys
IsPrefix(xs, ys) == Len(xs) <= Len(ys) /\ SubSeq(ys, 1, Len(xs)) = xs

\* a note operation carried out on a stored task has appended exactly one
\* note, stamped then, after the notes there were, and has stamped the task
NoteAppendsOne ==
    (/\ Answered("note") /\ last.http = 200
     /\ IsSome(last.resolved.id) /\ last.resolved.id[1] \in Ids(before))
    => /\ last.resolved.id[1] \in Ids(tasks)
       /\ LET old == TaskOf(before, last.resolved.id[1])
              new == TaskOf(tasks, last.resolved.id[1])
          IN  /\ new.notes = Append(old.notes, [t |-> clock,
                                                text |-> last.req.text[1]])
              /\ new.updatedAt = clock

\* C28 as claimed: in every step, every task that stays keeps the notes it
\* had, unedited and in their order, and a note operation appends exactly one
\* note after them and bumps updatedAt
C28_NotesAppendOnly ==
    [][ /\ \A id \in Ids(tasks) \cap Ids(tasks') :
              IsSubsequence(TaskOf(tasks, id).notes, TaskOf(tasks', id).notes)
        /\ NoteAppendsOne' ]_vars

\* C28 as amended: in every step, every task that stays keeps every note it
\* had; but for a merge import, which stores the notes sorted anew, they also
\* stay at the front in their order; a note operation appends exactly one
\* note after them and bumps updatedAt
C28_NotesKeptMergeSorts ==
    [][ /\ \A id \in Ids(tasks) \cap Ids(tasks') :
              /\ NoteSet(TaskOf(tasks, id).notes)
                    \subseteq NoteSet(TaskOf(tasks', id).notes)
              /\ Len(TaskOf(tasks, id).notes) <= Len(TaskOf(tasks', id).notes)
              /\ ~MergeDone(last')
                 => IsPrefix(TaskOf(tasks, id).notes, TaskOf(tasks', id).notes)
        /\ NoteAppendsOne' ]_vars

\* C28 witness: a note operation on a task that carried a note already and
\* now carries it and, after it, the new one
C28_Witness ==
    /\ Answered("note") /\ last.http = 200 /\ IsSome(last.resolved.id)
    /\ last.resolved.id[1] \in Ids(before)
    /\ LET old == TaskOf(before, last.resolved.id[1])
           new == TaskOf(tasks, last.resolved.id[1])
       IN  /\ Len(old.notes) > 0
           /\ Len(new.notes) = Len(old.notes) + 1
           /\ new.notes[Len(new.notes)].t = clock
           /\ new.updatedAt = clock

\* request k in flight is a block that has run its mutation in this step
JustBlocked(k) ==
    /\ Len(inflight') >= Len(inflight) /\ k <= Len(inflight')
    /\ inflight'[k].op = "block" /\ inflight'[k].pc = "mutated"
    /\ k <= Len(inflight) => inflight[k].pc = "resolved"

\* requests j and k in flight are blocks with different reasons that resolved
\* to the same task, and j has run its mutation
TwoBlocks(fl, j, k) ==
    /\ j # k /\ j <= Len(fl) /\ k <= Len(fl)
    /\ fl[j].op = "block" /\ fl[k].op = "block"
    /\ fl[j].pc = "mutated"
    /\ fl[j].resolved.id = fl[k].resolved.id
    /\ fl[j].args.reason # fl[k].args.reason

\* C29: when the second of two overlapping block requests with different
\* reasons on one task has run its mutation, the task is blocked and its
\* blockedReason is one of the two reasons
C29_ConcurrentBlocks ==
    [][ \A j, k \in 1..MaxReqs :
          (/\ JustBlocked(k) /\ TwoBlocks(inflight', j, k)
           /\ inflight'[k].resolved.id[1] \in Ids(tasks'))
          => LET t == TaskOf(tasks', inflight'[k].resolved.id[1])
             IN  /\ t.status = "blocked"
                 /\ t.blockedReason \in {inflight'[j].args.reason,
                                          inflight'[k].args.reason} ]_vars

\* C29 witness: two blocks by title have both run their mutation, neither is
\* answered yet, and the reason left is that of the request that arrived
\* first, which ran its mutation last
C29_Witness ==
    /\ Len(inflight) = 2
    /\ TwoBlocks(inflight, 1, 2) /\ inflight[2].pc = "mutated"
    /\ Truthy(inflight[1].args.title) /\ Truthy(inflight[2].args.title)
    /\ inflight[1].resolved.id[1] \in Ids(tasks)
    /\ TaskOf(tasks, inflight[1].resolved.id[1]).status = "blocked"
    /\ TaskOf(tasks, inflight[1].resolved.id[1]).blockedReason
          = inflight[1].args.reason
    /\ TaskOf(tasks, inflight[1].resolved.id[1]).updatedAt = clock
    /\ clock >= 3

\* the place of a status in the views
Rank(st) ==
    IF st = "in_flight" THEN 0 ELSE IF st = "blocked" THEN 1
    ELSE IF st = "planned" THEN 2 ELSE 3

\* in_flight before blocked before planned before done, and earlier created
\* first among tasks of one status
InViewOrder(ts) ==
    \A i, j \in 1..Len(ts) :
        i < j => \/ Rank(ts[i].status) < Rank(ts[j].status)
                 \/ /\ Rank(ts[i].status) = Rank(ts[j].status)
                    /\ ts[i].createdAt <= ts[j].createdAt

\* the sequence lists exactly the tasks of the given ids, each once
ListsExactly(ts, ids) ==
    {ts[i].id : i \in 1..Len(ts)} = ids /\ Len(ts) = Cardinality(ids)

\* the task passes the filters of the list request answered last
Listed(t) ==
    /\ (IsSome(last.req.project) => t.project = last.req.project[1])
    /\ (IsSome(last.req.status) => t.status = last.req.status[1])

\* C23: list answers, for every project with a task passing the filters,
\* with exactly those tasks in view order; active answers with exactly the
\* tasks that are not done, in view order
C23_ViewOrder ==
    /\ Answered("list")
       => /\ DOMAIN last.body.extra.tasks
               = {tasks[i].project : i \in {j \in 1..Len(tasks) : Listed(tasks[j])}}
          /\ \A p \in DOMAIN last.body.extra.tasks :
                /\ InViewOrder(last.body.extra.tasks[p])
                /\ ListsExactly(last.body.extra.tasks[p],
                      {tasks[i].id : i \in {j \in 1..Len(tasks) :
                          Listed(tasks[j]) /\ tasks[j].project = p}})
    /\ Answered("active")
       => /\ InViewOrder(last.body.extra.tasks)
          /\ ListsExactly(last.body.extra.tasks,
                {tasks[i].id : i \in {j \in 1..Len(tasks) :
                    tasks[j].status # "done"}})

\* C23 witness: a list of three tasks of one project, stored planned, then
\* blocked, then in flight, and listed the other way round
C23_Witness ==
    /\ last.op = "list" /\ Len(tasks) = 3
    /\ tasks[1].status = "planned" /\ tasks[2].status = "blocked"
    /\ tasks[3].status = "in_flight"
    /\ \E p \in DOMAIN last.body.extra.tasks :
          /\ Len(last.body.extra.tasks[p]) = 3
          /\ last.body.extra.tasks[p][1].id = 3
          /\ last.body.extra.tasks[p][2].id = 2
          /\ last.body.extra.tasks[p][3].id = 1

\* the op of the request answered last, as a lower-case string, is related
\* to a valid operation name by prefix, substring or the typo table
RelatedToValidOp ==
    /\ last.body.extra.op.type = "string"
    /\ last.body.extra.op.v # <<>>
    /\ \E i \in 1..Len(VALID_OPS) :
          LET lower == toLowerCase(last.body.extra.op.v)
              op == VALID_OPS[i]
          IN  \/ startsWith(op, lower) \/ startsWith(lower, op)
              \/ includes(op, lower) \/ includes(lower, op)
              \/ <<lower, op>> \in Typos

\* C25: a request whose op is no operation is answered 400 with an error,
\* the table left as it was, and the error names a valid operation as its
\* suggestion whenever the op is related to one
C25_UnknownOpSuggests ==
    Answered("unknown")
    => /\ last.http = 400
       /\ IsSome(last.body.error)
       /\ tasks = before
       /\ RelatedToValidOp
          => /\ last.body.error[1].msg = "Unknown op. Did you mean"
             /\ \E i \in 1..Len(VALID_OPS) :
                   VALID_OPS[i] = last.body.error[1].arg

\* the results of the envelope answered by r that report success
OkResults(r) == SelectSeq(r.body.results[1], LAMBDA x : x.ok)

\* the source that the request answered by r was issued from
IssuingSource(r) ==
    IF r.req.source = None THEN <<"a", "p", "i">> ELSE r.req.source[1]

\* the operations of /api that change one task
OneTaskOps == {"add"} \cup (TaskOpNames \ {"get"})

\* a command to /api that was served with no call of another request between
\* its calls, and applied: it is answered 200 and left the table changed
CommandApplied ==
    /\ last.op \in OneTaskOps /\ last.alone
    /\ last.http = 200 /\ tasks # before

\* the command applied last has appended one event, which names a task
CommandLogged ==
    CommandApplied
    => /\ Len(events) = last.logged + 1
       /\ IsSome(events[Len(events)].taskId)

\* an envelope answered 200 with no call of another request between its
\* calls has appended one event per command it reports as applied, in
\* order, each with the task the command was applied to (none for a sweep)
\* and the source the envelope was issued from; one that was turned away has
\* appended none
EnvelopeLogged ==
    (Answered("dsl/command"))
    => /\ last.http = 200
          => /\ Len(events) = last.logged + Len(OkResults(last))
             /\ \A k \in 1..Len(OkResults(last)) :
                   LET e == events[last.logged + k]
                       r == OkResults(last)[k]
                   IN  /\ e.taskId = IF r.op = "sweep" THEN Null
                                     ELSE r.task_id
                       /\ e.source = IssuingSource(last)
       /\ last.http \in {400, 401} => Len(events) = last.logged

\* C31: every step keeps the events logged so far as they are; a command to
\* /api that was applied to a task has appended one event with that task,
\* and an envelope to /dsl/command has appended one event per command it
\* reports as applied, with the command's task and the issuing source
C31_EveryCommandLogged ==
    [][ IsPrefix(events, events') /\ CommandLogged' /\ EnvelopeLogged' ]_vars

\* the request passes the checks of the key and of the envelope
ValidEnvelope(req) ==
    /\ req.apiKey # None /\ req.apiKey # Some(<<>>)
    /\ req.json
    /\ req.body.version = Some("v1")
    /\ req.body.user_id.type = "string" /\ req.body.user_id.v # <<>>
    /\ req.body.commands.isArray

\* the command carries an op of the protocol and the fields the op requires
WellFormedCmd(c) ==
    \/ c.op = Some("add") /\ Truthy(c.stream) /\ Truthy(c.title)
    \/ c.op \in {Some("done"), Some("blocked"), Some("parked"), Some("active")}
       /\ IsSome(c.task_id)
    \/ c.op = Some("note") /\ IsSome(c.task_id) /\ Truthy(c.text)
    \/ c.op = Some("rename") /\ IsSome(c.task_id) /\ Truthy(c.title)
    \/ c.op = Some("sweep")

\* the op that the result of the command c carries
ResultOp(c) == IF TruthyName(c.op) THEN c.op[1] ELSE "unknown"

\* the results res answer the commands cmds one by one, in order: a command
\* that is not well-formed gets ok:false, and a result with ok:false
\* carries an error
AnswersEach(cmds, res) ==
    /\ Len(res) = Len(cmds)
    /\ \A i \in 1..Len(cmds) :
          /\ res[i].op = ResultOp(cmds[i])
          /\ ~WellFormedCmd(cmds[i]) => ~res[i].ok
          /\ ~res[i].ok => IsSome(res[i].error)

TurnedAway ==
    /\ arrived' = arrived + 1 /\ Len(inflight') = Len(inflight)
    /\ last'.op = "dsl/command"

\* C33: a request to /dsl/command without the key of the client is answered
\* 401 on arrival, and one with the key whose version is not "v1", whose
\* user_id is missing or whose commands are no array is answered 400 on
\* arrival; neither changes a table
C33_RejectedAppliesNothing ==
    [][ /\ \A k \in 1..Len(inflight') :
              inflight'[k].op = "dsl/command"
              => /\ inflight'[k].args.apiKey = Some(API_KEY)
                 /\ inflight'[k].args.json
                 /\ inflight'[k].args.body.version = Some("v1")
                 /\ inflight'[k].args.body.user_id.type # "undefined"
                 /\ inflight'[k].args.body.commands.isArray
        /\ TurnedAway
           => /\ last'.req.apiKey # Some(API_KEY)
                 => /\ last'.http = 401
                    /\ UNCHANGED <<tasks, noteTable, events>>
              /\ (/\ last'.req.apiKey = Some(API_KEY)
                  /\ last'.req.json
                  /\ \/ last'.req.body.version # Some("v1")
                     \/ last'.req.body.user_id.type = "undefined"
                     \/ ~last'.req.body.commands.isArray)
                 => /\ last'.http = 400
                    /\ UNCHANGED <<tasks, noteTable, events>>
      ]_vars

\* the table db with the task of this id in flight since t: no reason, no
\* completion time, every other field and every other task as in db
InFlightSince(db, id, t) ==
    [i \in 1..Len(db) |->
        IF db[i].id # id THEN db[i]
        ELSE [id |-> id, title |-> db[i].title, project |-> db[i].project,
              status |-> "in_flight", blockedReason |-> None,
              notes |-> db[i].notes, createdAt |-> db[i].createdAt,
              updatedAt |-> t, completedAt |-> None]]

\* C34: a start and an activate of a stored task leave the same table: the
\* task in flight, without blockedReason and completedAt, all else as it
\* was; activate also reports the status the task had
C34_StartIsActivate ==
    (/\ last.alone /\ last.op \in {"start", "activate"} /\ last.http = 200
     /\ IsSome(last.resolved.id) /\ last.resolved.id[1] \in Ids(before))
    => /\ tasks = InFlightSince(before, last.resolved.id[1], clock)
       /\ tasks = status(before, last.resolved.id[1], "in_flight", None,
                         clock).db
       /\ tasks = activate(before, last.resolved.id[1], clock).db
       /\ last.op = "activate"
          => last.body.extra.previousStatus
               = Some(TaskOf(before, last.resolved.id[1]).status)

\* C34 witness: an activate of a task that was blocked with a reason
C34_Witness ==
    /\ Answered("activate") /\ last.http = 200
    /\ IsSome(last.resolved.id) /\ last.resolved.id[1] \in Ids(before)
    /\ TaskOf(before, last.resolved.id[1]).status = "blocked"
    /\ IsSome(TaskOf(before, last.resolved.id[1]).blockedReason)
    /\ TaskOf(tasks, last.resolved.id[1]).status = "in_flight"
    /\ last.body.extra.previousStatus = Some("blocked")

\* operations that set the status of a task
StatusOpNames ==
    {"done", "reopen", "start", "activate", "block", "unblock", "status"}

\* task b is task a but for the fields named
SameBut(a, b, fields) ==
    /\ "id" \notin fields => a.id = b.id
    /\ "title" \notin fields => a.title = b.title
    /\ "project" \notin fields => a.project = b.project
    /\ "status" \notin fields => a.status = b.status
    /\ "blockedReason" \notin fields => a.blockedReason = b.blockedReason
    /\ "notes" \notin fields => a.notes = b.notes
    /\ "createdAt" \notin fields => a.createdAt = b.createdAt
    /\ "updatedAt" \notin fields => a.updatedAt = b.updatedAt
    /\ "completedAt" \notin fields => a.completedAt = b.completedAt

\* the fields that the operation may change in the task it resolves
MayChange(op) ==
    IF op \in StatusOpNames
    THEN {"status", "blockedReason", "completedAt", "updatedAt"}
    ELSE IF op = "rename" THEN {"title", "updatedAt"}
    ELSE {"notes", "updatedAt"}

\* C35: a status operation, a rename and a note leave every other task as
\* it was and change, in the task they resolve, only the fields that are
\* theirs: never id, project or createdAt
C35_FrameOfTaskOps ==
    (/\ last.alone /\ last.op \in StatusOpNames \cup {"rename", "note"}
     /\ last.http = 200
     /\ IsSome(last.resolved.id))
    => /\ Len(tasks) = Len(before)
       /\ \A i \in 1..Len(before) :
             IF before[i].id = last.resolved.id[1]
             THEN SameBut(before[i], tasks[i], MayChange(last.op))
             ELSE tasks[i] = before[i]

\* C35 witness: a rename in a table of two tasks gave one of them another
\* title
C35_Witness ==
    /\ Answered("rename") /\ last.http = 200
    /\ Len(before) = 2 /\ Len(tasks) = 2
    /\ \E i \in 1..2 :
          /\ before[i].id = last.resolved.id[1]
          /\ tasks[i].title # before[i].title
          /\ tasks[i].updatedAt # before[i].updatedAt

\* what a task carries over a backup: everything but id and updatedAt
Carried(t) ==
    <<t.title, t.project, t.status, t.blockedReason, t.notes, t.createdAt,
      t.completedAt>>

\* the number of tasks of db that carry c
CountOf(db, c) == Cardinality({i \in 1..Len(db) : Carried(db[i]) = c})

\* C36: after an import, in replace mode, of the export of the table as it
\* was, the table holds the same tasks as many times as before, on every
\* field but id and updatedAt
C36_ExportImportRoundTrip ==
    (/\ Answered("import") /\ last.http = 200
     /\ last.req.mode = Some("replace")
     /\ last.req.data = Some(exportTasks(before)))
    => /\ Len(tasks) = Len(before)
       /\ \A i \in 1..Len(before) :
             CountOf(tasks, Carried(before[i]))
               = CountOf(before, Carried(before[i]))

\* C36 witness: the round trip of a table of two tasks, one of them with
\* notes and a blockedReason; the tasks came back under new ids
C36_Witness ==
    /\ Answered("import") /\ last.http = 200
    /\ last.req.mode = Some("replace")
    /\ last.req.data = Some(exportTasks(before))
    /\ Len(before) = 2
    /\ \E i \in 1..2 : before[i].notes # <<>> /\ IsSome(before[i].blockedReason)
    /\ Ids(tasks) \cap Ids(before) = {}
    /\ \A i \in 1..2 : Carried(tasks[i]) = Carried(before[i])

\* C37: a title query that several stored titles equal, letter case aside,
\* is not answered as ambiguous: with and without exact:true it resolves to
\* the first of those tasks in store order
C37_FirstOfEqualTitles ==
    (ByTitle(last) /\ Cardinality(ExactHits(before, last.req.title[1])) > 1)
    => /\ ~IsSome(last.resolved.error)
       /\ ~IsSome(last.body.matches)
       /\ last.resolved.id
            = Some(before[CHOOSE i \in ExactHits(before, last.req.title[1]) :
                            \A j \in ExactHits(before, last.req.title[1]) :
                                i <= j].id)

\* C37 witness: a start by title, without exact:true, in a table of two
\* tasks whose titles differ in letter case only; the first one was started
C37_Witness ==
    /\ last.op = "start" /\ ByTitle(last) /\ ~last.req.exact
    /\ last.http = 200
    /\ Len(before) = 2
    /\ ExactHits(before, last.req.title[1]) = {1, 2}
    /\ before[1].title # before[2].title
    /\ last.resolved.id = Some(before[1].id)
    /\ tasks[1].status = "in_flight" /\ tasks[2].status = "planned"

\* sub-operation k of the batch answered last is a done that names no task
DoneWithoutRef(k) ==
    /\ BatchOps[k].op = "done"
    /\ ~IsSome(BatchOps[k].args.id) /\ ~Truthy(BatchOps[k].args.title)

\* C38: a done inside a batch that carries neither id nor title is reported
\* ok:false, and a batch of nothing but such sub-operations leaves the table
\* as it was
C38_BatchDoneNeedsRef ==
    (Answered("batch") /\ last.http = 200)
    => /\ \A k \in 1..Len(BatchOps) :
             DoneWithoutRef(k) => ~BatchResults[k].ok
       /\ (\A k \in 1..Len(BatchOps) : DoneWithoutRef(k)) => tasks = before

\* C39: whenever every add request received has been answered, tasks whose
\* project names differ in letter case only are stored under one name
C39_ConcurrentAddsOneProject ==
    Quiet
    => \A i, j \in 1..Len(tasks) :
          toLowerCase(tasks[i].project) = toLowerCase(tasks[j].project)
          => tasks[i].project = tasks[j].project

\* no two tasks of db have the same project and title, letter case aside
DistinctKeys(db) ==
    \A i, j \in 1..Len(db) :
        (/\ toLowerCase(db[i].project) = toLowerCase(db[j].project)
         /\ toLowerCase(db[i].title) = toLowerCase(db[j].title))
        => i = j

\* C40: a merge import into a table without two tasks of one key leaves a
\* table without two tasks of one key
C40_MergeKeepsKeysDistinct ==
    (/\ Answered("import") /\ last.http = 200
     /\ last.req.mode = Some("merge")
     /\ DistinctKeys(before))
    => DistinctKeys(tasks)

====
